---- MODULE Spec2Model ----
(***************************************************************************)
(* Model of the agentic builder's dependency resolver and of its two       *)
(* execution engines (WorkflowEngine, ParallelWorkflowEngine).             *)
(*                                                                         *)
(*   SpecResolver : WorkflowMapper.topological_sort and                    *)
(*                  ParallelWorkflowEngine._compute_phases as pure         *)
(*                  functions of a role registry and a role list.          *)
(*   SpecRegistry : the same two functions under the shipped registry.     *)
(*   Spec         : one engine (sequential or parallel) driving sessions   *)
(*                  over the shipped registry, with collaborator           *)
(*                  outcomes, version-control outcomes and cancel_workflow *)
(*                  interleaved.                                           *)
(***************************************************************************)
EXTENDS Naturals, Integers, Sequences, FiniteSets, TLC

VARIABLES
    config,        \* AGENT_CONFIGS_MAP: AgentType -> list of prerequisite roles
    agents,        \* the role list handed to the resolver
    sortResult,    \* {} before the call, then {outcome of topological_sort(agents)}
    phaseResult,   \* {} before the call, then {outcome of _compute_phases(agents)}
    engine,        \* which engine the process built: "sequential" or "parallel"
    max_concurrent,\* ParallelWorkflowEngine.max_concurrent
    sessions,      \* SessionManager: the session records, session id = position
    active_runs,   \* the engine's _active_runs (session ids)
    tasks,         \* TaskManager: the task records, TASK-n = position n
    manifest,      \* TaskFileStore: .tasks/manifest.json
    pc,            \* where the engine's current call stands
    cur,           \* the session id of the engine's current call
    loop,          \* locals of WorkflowEngine.run_loop
    par,           \* locals of ParallelWorkflowEngine._run_parallel
    runs,          \* number of engine calls made so far
    invoked,       \* roles whose collaborator was invoked in the current call, in order
    entry,         \* what was recorded as completed when the current call began
    cancel_returned, \* sessions for which cancel_workflow has returned
    emitted,       \* the events the engine emitted in its current call, in order
    art,           \* the artifact loop of one successful response
    disk,          \* the files that exist, as resolved locations
    store,         \* the calls made on a TaskFileStore by one caller
    race,          \* two callers of a TaskFileStore, step by step
    sm,            \* SessionManager instances over one .sessions directory
    ctx,           \* one ContextSerializer.serialize call and the parse of its output
    emitter,       \* an EventEmitter: its listeners and its last emit
    adaptive,      \* an AdaptiveOrchestrator and its run_workflow call
    batched        \* a BatchedGitManager and the calls made on it

resolverVars == <<config, agents, sortResult, phaseResult>>

\* what no engine step changes
fixed == <<config, agents, sortResult, phaseResult, engine, max_concurrent,
          art, disk, store, race, sm,
          ctx, emitter, adaptive, batched>>

\* the state of the components a specification leaves at rest
restVars == <<art, disk, store, race, sm,
          ctx, emitter, adaptive, batched>>

engineVars == <<engine, max_concurrent, sessions, active_runs, tasks, manifest,
                pc, cur, loop, par, runs, invoked, entry, cancel_returned,
                emitted>>

vars == <<config, agents, sortResult, phaseResult, engine, max_concurrent,
          sessions, active_runs, tasks, manifest, pc, cur, loop, par, runs,
          invoked, entry, cancel_returned, emitted, art, disk, store, race, sm,
          ctx, emitter, adaptive, batched>>

----------------------------------------------------------------------------
(* Bounds of the model *)

\* most prerequisite edges a generated registry holds
MaxEdges == 4

\* most engine calls (start_workflow, or run_loop on an existing session)
MaxRuns == 2

\* largest max_concurrent a parallel engine is built with
MaxConcurrentLimit == 2

\* most segments of an artifact path
MaxPathLen == 2

\* most artifacts of one response
MaxArtifacts == 2

\* most calls one caller makes on a task store
MaxStoreCalls == 4

\* most calls made on the SessionManager instances together
MaxSessionCalls == 4

\* longest text of a field given to ContextSerializer.serialize
MaxTextLen == 2

\* most listeners registered on an EventEmitter
MaxListeners == 3

\* most spawn requests in one agent output
MaxSpawnNext == 2

\* most calls made on a BatchedGitManager
MaxGitCalls == 5

----------------------------------------------------------------------------
(* Roles and the role registry *)

\* The roles of the model, in the declaration order of the AgentType enum.
AgentTypeOrder == <<"PM", "ARCHITECT", "UIUX_GUI", "TL_UI_WEB">>

Range(s) == {s[i] : i \in DOMAIN s}

AgentType == Range(AgentTypeOrder)

\* the roles of S as a list, in enum order
ListOf(S) == SelectSeq(AgentTypeOrder, LAMBDA a : a \in S)

\* Legacy names and the role each resolves to.
AGENT_TYPE_ALIASES ==
    [a \in {"UIUX", "TL_FRONTEND", "DEV_FRONTEND", "TL_BACKEND", "DEV_BACKEND"} |->
        CASE a = "UIUX" -> "UIUX_GUI"
          [] a = "TL_FRONTEND" -> "TL_UI_WEB"
          [] a = "DEV_FRONTEND" -> "DEV_UI_WEB"
          [] a = "TL_BACKEND" -> "TL_CORE_API"
          [] a = "DEV_BACKEND" -> "DEV_CORE_API"]

resolve_agent_type(agent_type) ==
    IF agent_type \in DOMAIN AGENT_TYPE_ALIASES
    THEN AGENT_TYPE_ALIASES[agent_type]
    ELSE agent_type

\* The prerequisite lists of the registry, for the roles of the model.
AGENT_CONFIGS_MAP ==
    [a \in AgentType |->
        CASE a = "PM" -> <<>>
          [] a = "ARCHITECT" -> <<"PM">>
          [] a = "UIUX_GUI" -> <<"PM">>
          [] a = "TL_UI_WEB" -> <<"ARCHITECT", "UIUX_GUI">>]

\* get_agent_config(agent_type) finds a configuration (else it raises ValueError)
HasConfig(cfg, agent_type) ==
    resolve_agent_type(agent_type) \in DOMAIN cfg \/ agent_type \in DOMAIN cfg

\* get_agent_config(agent_type).dependencies under registry cfg
get_agent_config(cfg, agent_type) ==
    IF resolve_agent_type(agent_type) \in DOMAIN cfg
    THEN cfg[resolve_agent_type(agent_type)]
    ELSE cfg[agent_type]

----------------------------------------------------------------------------
(* WorkflowMapper.topological_sort *)

\* `dep in agents`
InAgents(dep, agentList) == dep \in Range(agentList)

\* visit(node) reaching a node that is not unvisited: raise when it is being
\* visited (state 1), return when it is visited (state 2).
RevisitSilently(st, node) == st

Revisit(st, node) ==
    IF st.state[node] = 1 THEN [st EXCEPT !.raised = TRUE] ELSE st

\* the end of visit(node): state[node] = 2; result.append(node)
FinishPrepend(st, node) ==
    [st EXCEPT !.state[node] = 2, !.result = <<node>> \o @]

Finish(st, node) ==
    [st EXCEPT !.state[node] = 2, !.result = Append(@, node)]

RECURSIVE visit(_, _, _, _)
RECURSIVE visitDeps(_, _, _, _)

visit(cfg, agentList, node, st) ==
    IF st.raised THEN st
    ELSE IF st.state[node] # 0 THEN Revisit(st, node)
    ELSE LET entered == [st EXCEPT !.state[node] = 1]
             after == visitDeps(cfg, agentList, get_agent_config(cfg, node), entered)
         IN  IF after.raised THEN after ELSE Finish(after, node)

\* `for dep in config.dependencies: if dep in agents: visit(dep)`
visitDeps(cfg, agentList, deps, st) ==
    IF deps = <<>> \/ st.raised THEN st
    ELSE LET dep == Head(deps)
             next == IF InAgents(dep, agentList)
                     THEN visit(cfg, agentList, dep, st)
                     ELSE st
         IN  visitDeps(cfg, agentList, Tail(deps), next)

RECURSIVE visitAll(_, _, _, _)
\* `for agent in agents: if state[agent] == 0: visit(agent)`
visitAll(cfg, agentList, todo, st) ==
    IF todo = <<>> \/ st.raised THEN st
    ELSE LET agent == Head(todo)
             next == IF st.state[agent] = 0
                     THEN visit(cfg, agentList, agent, st)
                     ELSE st
         IN  visitAll(cfg, agentList, Tail(todo), next)

\* The call's outcome: raised (ValueError, nothing returned) or the order.
\* The first loop looks up the configuration of every role of the list.
topological_sort(cfg, agentList) ==
    LET st0 == [state |-> [a \in Range(agentList) |-> 0],
                result |-> <<>>,
                raised |-> FALSE]
        fin == IF \E a \in Range(agentList) : ~HasConfig(cfg, a)
               THEN [st0 EXCEPT !.raised = TRUE]
               ELSE visitAll(cfg, agentList, agentList, st0)
    IN  IF fin.raised
        THEN [raised |-> TRUE, order |-> <<>>]
        ELSE [raised |-> FALSE, order |-> fin.result]

----------------------------------------------------------------------------
(* ParallelWorkflowEngine._compute_phases *)

\* deps_satisfied = all(dep in completed for dep in config.dependencies)
DepsSatisfiedIgnoringDeps(cfg, agent, completed) == TRUE

DepsSatisfied(cfg, agent, completed) ==
    \A dep \in Range(get_agent_config(cfg, agent)) : dep \in completed

RECURSIVE PhaseLoop(_, _, _, _)
\* the `while remaining` loop; phases are numbered by their position
PhaseLoop(cfg, remaining, completed, phases) ==
    IF remaining = {} THEN [raised |-> FALSE, phases |-> phases]
    ELSE LET ready == {a \in remaining : DepsSatisfied(cfg, a, completed)}
         IN  IF ready = {}
             THEN [raised |-> TRUE, phases |-> <<>>]
             ELSE PhaseLoop(cfg, remaining \ ready, completed \cup ready,
                            Append(phases, ready))

\* The call's outcome: raised (RuntimeError) or the list of phases.
compute_phases(cfg, execution_order) ==
    PhaseLoop(cfg, Range(execution_order), {}, <<>>)

----------------------------------------------------------------------------
(* Workflow templates *)

WorkflowType == {"FULL_APP_GENERATION", "REFACTORING"}

\* WORKFLOW_TEMPLATES over the roles of the model: FULL_APP_GENERATION is
\* list(AgentType); of REFACTORING's roles only ARCHITECT is a role of the
\* model (PM is not part of that template).
WORKFLOW_TEMPLATES ==
    [w \in WorkflowType |->
        IF w = "FULL_APP_GENERATION" THEN AgentTypeOrder ELSE <<"ARCHITECT">>]

\* WorkflowMapper.get_execution_order: an unknown name falls back to
\* FULL_APP_GENERATION
get_execution_order(cfg, workflow_type) ==
    LET w_type == IF workflow_type \in WorkflowType
                  THEN workflow_type
                  ELSE "FULL_APP_GENERATION"
    IN  topological_sort(cfg, WORKFLOW_TEMPLATES[w_type])

----------------------------------------------------------------------------
(* SessionManager, TaskManager, TaskFileStore *)

\* SessionManager.create_session: a new record, status PENDING, saved
create_session(ss, workflow_name) ==
    Append(ss, [workflow_name |-> workflow_name,
                status |-> "PENDING",
                completed_tasks |-> <<>>])

\* SessionManager.update_status: load, assign, save; no session, no effect
update_status(ss, session_id, status) ==
    IF session_id \in DOMAIN ss
    THEN [ss EXCEPT ![session_id].status = status]
    ELSE ss

\* the number after the last task file, counted again instead of one more
next_num_recounted(ts) == IF ts = <<>> THEN 1 ELSE Cardinality(DOMAIN ts)

\* TaskManager.create_task: next_num is the number of TASK-*.json files plus one
next_num(ts) == Cardinality(DOMAIN ts) + 1

\* TaskManager.create_task: the task with id TASK-<next_num> and status pending
\* is written to its file by save_task, whatever that file held
create_task(ts, agent_type, dependencies) ==
    LET task_id == next_num(ts)
    IN  [i \in DOMAIN ts \cup {task_id} |->
            IF i = task_id
            THEN [agent_type |-> agent_type,
                  status |-> "pending",
                  dependencies |-> dependencies]
            ELSE ts[i]]

\* the manifest before any session was initialized (get_manifest returns {})
NoManifest ==
    [pending |-> <<>>, in_progress |-> <<>>, completed |-> <<>>,
     tasks |-> [a \in AgentType |-> "none"]]

\* list.remove(x) when x is in the list: the first occurrence goes
Remove(list, x) ==
    IF x \notin Range(list) THEN list
    ELSE LET i == CHOOSE j \in DOMAIN list :
                      list[j] = x /\ \A h \in 1..(j - 1) : list[h] # x
         IN  SubSeq(list, 1, i - 1) \o SubSeq(list, i + 1, Len(list))

\* `if x not in list: list.append(x)`
AppendAlways(list, x) == Append(list, x)

AppendNew(list, x) == IF x \in Range(list) THEN list ELSE Append(list, x)

\* TaskFileStore.initialize_session: a fresh manifest is written
initialize_session(m, agentList) ==
    [pending |-> agentList, in_progress |-> <<>>, completed |-> <<>>,
     tasks |-> [a \in AgentType |-> "none"]]

\* TaskFileStore.start_task
start_task(m, agent) ==
    [m EXCEPT !.pending = Remove(@, agent),
              !.in_progress = AppendNew(@, agent),
              !.tasks[agent] = "in_progress"]

\* manifest["tasks"][agent_name] exists (start_task created the entry);
\* without it complete_task and fail_task raise KeyError before they write
HasTaskEntry(m, agent) == m.tasks[agent] # "none"

\* TaskFileStore.complete_task
complete_task(m, agent) ==
    IF ~HasTaskEntry(m, agent) THEN m
    ELSE [m EXCEPT !.in_progress = Remove(@, agent),
                   !.completed = AppendNew(@, agent),
                   !.tasks[agent] = "completed"]

\* TaskFileStore.fail_task
fail_task(m, agent) ==
    IF ~HasTaskEntry(m, agent) THEN m
    ELSE [m EXCEPT !.in_progress = Remove(@, agent),
                   !.tasks[agent] = "failed"]

\* TaskFileStore.get_completed_agents
get_completed_agents(m) == Range(m.completed)

----------------------------------------------------------------------------
(* The engines' state *)

NoLoop ==
    [order |-> <<>>, idx |-> 0, completed_agents |-> {},
     agent_task_map |-> [a \in AgentType |-> 0], task |-> 0,
     dep_tasks |-> {}, project_idea |-> FALSE, via_start |-> FALSE,
     failed_agent |-> ""]

NoPar ==
    [phases |-> <<>>, k |-> 0, completed |-> {},
     state |-> [a \in AgentType |-> "-"], failed_agents |-> {},
     project_idea |-> {}]

NoEntry == [completed |-> {}, ntasks |-> 0, git |-> <<>>]

\* the state after construction of the managers and the engine
EngineInit ==
    /\ sessions = <<>>
    /\ active_runs = {}
    /\ tasks = <<>>
    /\ manifest = NoManifest
    /\ pc = "idle"
    /\ cur = 0
    /\ loop = NoLoop
    /\ par = NoPar
    /\ runs = 0
    /\ invoked = <<>>
    /\ entry = NoEntry
    /\ cancel_returned = {}
    /\ emitted = <<>>

\* the empty path string
NoPath == [abs |-> FALSE, segs |-> <<>>]

NoArtifact == [type |-> "-", path |-> NoPath, name |-> NoPath, content |-> FALSE]

\* no response is being processed
NoArt ==
    [pc |-> "-", artifact |-> NoArtifact, n |-> 0, created_files |-> <<>>,
     written |-> {}, registered |-> <<>>, committed |-> <<>>,
     security_errors |-> 0, missing_warnings |-> 0,
     task_status |-> "-", raised |-> FALSE]

ArtifactsAtRest == art = NoArt /\ disk = {}

\* no direct caller of the task store
NoStore ==
    [calls |-> 0, last_op |-> [a \in AgentType |-> "none"],
     completes |-> [a \in AgentType |-> 0],
     last_call |-> [op |-> "none", agent |-> "-", raised |-> FALSE]]

NoRace == [lock |-> {}, truncated |-> FALSE, w |-> <<>>]

StoreAtRest == store = NoStore /\ race = NoRace

\* no session record
NoSession == [workflow_name |-> "-", status |-> "-", completed_tasks |-> <<>>]

\* no SessionManager exercised on its own
NoSM ==
    [files |-> <<>>, cache |-> <<>>, ops |-> 0,
     last |-> [op |-> "none", inst |-> 0, id |-> 0, returned |-> NoSession]]

SessionsAtRest == sm = NoSM

\* no serialize call made
NoCtx ==
    [pc |-> "-", description |-> <<>>, summary |-> <<>>, doc |-> <<>>,
     parsed |-> [ok |-> FALSE, task_id |-> <<>>, agent_role |-> <<>>,
                 description |-> <<>>, summary |-> <<>>]]

SerializerAtRest == ctx = NoCtx

\* events the engines emit and the command line listens to
Events == {"agent_spawned", "workflow_failed"}

\* the listeners: two that return when called and one that raises
Listeners == {"returns", "logs", "raises"}

\* an emitter nothing was registered on; `registered` counts, for every event
\* and listener, the on calls not yet undone by an off call
NoEmitter ==
    [listeners |-> <<>>, event |-> "-", called |-> <<>>, raised |-> FALSE,
     registered |-> [e \in Events |-> [l \in Listeners |-> 0]]]

EmitterAtRest == emitter = NoEmitter

\* an AdaptiveOrchestrator after construction, run_workflow not called
NoAdaptive ==
    [pc |-> "-", pending_spawns |-> <<>>, skipped_agents |-> {},
     completed_agents |-> {}, declared |-> {}, ran |-> <<>>,
     passed_over |-> {}]

AdaptiveAtRest == adaptive = NoAdaptive

\* a BatchedGitManager after construction
NoBatched ==
    [current_phase |-> <<>>, pending_phases |-> <<>>, staged |-> 0, calls |-> 0]

BatchedAtRest == batched = NoBatched

\* no engine call is under way
Idle == pc \in {"idle", "returned", "raised"}

\* an emitted event: its name and the role of its payload ("-" for the
\* workflow events, whose payload names the session)
Event(name, agent) == [event |-> name, agent |-> agent]

----------------------------------------------------------------------------
(* start_workflow, both engines: session, status, branch *)

\* create_session(workflow_name)
CreateSession(w) ==
    /\ Idle
    /\ runs < MaxRuns
    /\ sessions' = create_session(sessions, w)
    /\ cur' = Len(sessions) + 1
    /\ pc' = "created"
    /\ runs' = runs + 1
    /\ loop' = [NoLoop EXCEPT !.via_start = TRUE]
    /\ par' = NoPar
    /\ invoked' = <<>>
    /\ entry' = NoEntry
    /\ emitted' = <<>>
    /\ UNCHANGED <<fixed, active_runs, tasks, manifest,
                   cancel_returned>>

\* update_status(RUNNING); _active_runs[id] = True; the parallel engine then
\* resolves the execution order and initializes the task store
MarkRunning ==
    /\ pc = "created"
    /\ LET ss == update_status(sessions, cur, "RUNNING")
           ord == get_execution_order(config, ss[cur].workflow_name)
       IN  /\ sessions' = ss
           /\ active_runs' = active_runs \cup {cur}
           /\ IF engine = "parallel"
              THEN IF ord.raised
                   THEN pc' = "raised" /\ UNCHANGED <<manifest, entry>>
                   ELSE /\ pc' = "branch"
                        /\ entry' = [entry EXCEPT !.completed = get_completed_agents(manifest)]
                        /\ manifest' = initialize_session(manifest, ord.order)
              ELSE pc' = "branch" /\ UNCHANGED <<manifest, entry>>
    /\ emitted' = Append(emitted, Event("workflow_started", "-"))
    /\ UNCHANGED <<fixed, tasks, cur, loop, par, runs,
                   invoked, cancel_returned>>

\* The results of the git calls start_workflow makes for the branch:
\* create_branch, and checkout_branch when create_branch raised
GitResults == {<<TRUE>>, <<FALSE, TRUE>>, <<FALSE, FALSE>>}

\* the branch is ready when create_branch alone succeeded
BranchReadyNoFallback(results) == results[1]

\* the branch is ready when the last git call made succeeded
BranchReady(results) == results[Len(results)]

\* git.create_branch; on failure git.checkout_branch; both failing raises out
\* of start_workflow
CreateBranch(results) ==
    /\ pc = "branch"
    /\ pc' = IF BranchReady(results) THEN "enter" ELSE "raised"
    /\ entry' = [entry EXCEPT !.git = results]
    /\ UNCHANGED <<fixed, emitted, sessions, active_runs, tasks,
                   manifest, cur, loop, par, runs, invoked, cancel_returned>>

\* cancel_workflow(run_id), either engine, called by a listener or another
\* thread: a session's id is known to callers once workflow_started is emitted
CancelWorkflow(run_id) ==
    /\ run_id \in DOMAIN sessions
    /\ run_id # cur \/ pc # "created"
    /\ active_runs' = active_runs \ {run_id}
    /\ sessions' = update_status(sessions, run_id, "CANCELLED")
    /\ cancel_returned' = cancel_returned \cup {run_id}
    /\ UNCHANGED <<fixed, emitted, tasks, manifest, pc, cur, loop,
                   par, runs, invoked, entry>>

----------------------------------------------------------------------------
(* WorkflowEngine.run_loop and the end of WorkflowEngine.start_workflow *)

\* An exception leaving run_loop: start_workflow's handler marks the session
\* FAILED and re-raises; a direct caller of run_loop just sees the exception.
RaiseWithoutStatus(ss) == ss

RaiseFromRunLoop(ss) ==
    IF loop.via_start THEN update_status(ss, cur, "FAILED") ELSE ss

\* start_workflow's handler emits workflow_failed for an exception leaving
\* run_loop; a direct caller of run_loop has no such handler
HandlerEmits(log) ==
    IF loop.via_start THEN Append(log, Event("workflow_failed", "-")) ELSE log

\* on an error the order degrades to the unsorted FULL_APP_GENERATION template
ExecutionOrderDegraded(workflow_name) ==
    LET first == get_execution_order(config, workflow_name)
    IN  IF first.raised
        THEN [raised |-> FALSE, order |-> WORKFLOW_TEMPLATES["FULL_APP_GENERATION"]]
        ELSE first

\* the execution order run_loop settles on: the workflow's, or on an error
\* FULL_APP_GENERATION's
ExecutionOrder(workflow_name) ==
    LET first == get_execution_order(config, workflow_name)
    IN  IF first.raised
        THEN get_execution_order(config, "FULL_APP_GENERATION")
        ELSE first

\* completed_agents / agent_task_map built from session.completed_tasks
CompletedAgents(ts, completed_tasks) ==
    {ts[t].agent_type : t \in {x \in Range(completed_tasks) : x \in DOMAIN ts}}

AgentTaskMap(ts, completed_tasks) ==
    [a \in AgentType |->
        LET at == {i \in DOMAIN completed_tasks :
                       /\ completed_tasks[i] \in DOMAIN ts
                       /\ ts[completed_tasks[i]].agent_type = a}
        IN  IF at = {} THEN 0
            ELSE completed_tasks[CHOOSE i \in at : \A j \in at : j <= i]]

\* run_loop up to its for loop
RunLoopEnter ==
    /\ engine = "sequential"
    /\ pc = "enter"
    /\ LET ord == ExecutionOrder(sessions[cur].workflow_name)
       IN  IF ord.raised
           THEN /\ pc' = "raised"
                /\ sessions' = RaiseFromRunLoop(sessions)
                /\ emitted' = HandlerEmits(emitted)
                /\ UNCHANGED <<loop, entry>>
           ELSE /\ pc' = "loop"
                /\ loop' = [loop EXCEPT
                       !.order = ord.order,
                       !.idx = 1,
                       !.completed_agents =
                           CompletedAgents(tasks, sessions[cur].completed_tasks),
                       !.agent_task_map =
                           AgentTaskMap(tasks, sessions[cur].completed_tasks)]
                /\ entry' = [entry EXCEPT
                       !.completed =
                           CompletedAgents(tasks, sessions[cur].completed_tasks),
                       !.ntasks = Len(tasks)]
                /\ UNCHANGED <<sessions, emitted>>
    /\ UNCHANGED <<fixed, active_runs, tasks, manifest, cur, par, runs, invoked,
                   cancel_returned>>

\* run_loop called on an existing session by a caller other than
\* start_workflow; reactivate: the caller first enters the id in _active_runs
ResumeRunLoop(session_id, reactivate) ==
    /\ engine = "sequential"
    /\ Idle
    /\ runs < MaxRuns
    /\ session_id \in DOMAIN sessions
    /\ runs' = runs + 1
    /\ cur' = session_id
    /\ active_runs' = IF reactivate THEN active_runs \cup {session_id} ELSE active_runs
    /\ loop' = [NoLoop EXCEPT !.via_start = FALSE]
    /\ par' = NoPar
    /\ invoked' = <<>>
    /\ entry' = NoEntry
    /\ pc' = "enter"
    /\ emitted' = <<>>
    /\ UNCHANGED <<fixed, sessions, tasks, manifest, cancel_returned>>

\* loop head, `if session_id not in self._active_runs: break`
LoopBreakCancelled ==
    /\ pc = "loop"
    /\ loop.idx <= Len(loop.order)
    /\ cur \notin active_runs
    /\ pc' = "finish"
    /\ UNCHANGED <<fixed, emitted, sessions, active_runs, tasks, manifest, cur, loop, par,
                   runs, invoked, entry, cancel_returned>>

\* loop head, `if agent_type in completed_agents: continue`
SkipsCompletedNever(agent_type) == FALSE

SkipsCompleted(agent_type) == agent_type \in loop.completed_agents

LoopSkipCompleted ==
    /\ pc = "loop"
    /\ loop.idx <= Len(loop.order)
    /\ cur \in active_runs
    /\ SkipsCompleted(loop.order[loop.idx])
    /\ loop' = [loop EXCEPT !.idx = @ + 1]
    /\ UNCHANGED <<fixed, emitted, sessions, active_runs, tasks, manifest, pc, cur, par,
                   runs, invoked, entry, cancel_returned>>

\* no prerequisite's task is looked up
DepsIdsEmpty(agent_type) == <<>>

\* deps_ids: the task ids of the role's prerequisites found in agent_task_map
DepsIds(agent_type) ==
    LET deps == get_agent_config(config, agent_type)
        have == SelectSeq(deps, LAMBDA d : loop.agent_task_map[d] # 0)
    IN  [i \in DOMAIN have |-> loop.agent_task_map[have[i]]]

\* loop body up to emit("agent_spawned"): the task is created
LoopSpawn ==
    /\ pc = "loop"
    /\ loop.idx <= Len(loop.order)
    /\ cur \in active_runs
    /\ ~SkipsCompleted(loop.order[loop.idx])
    /\ tasks' = create_task(tasks, loop.order[loop.idx], DepsIds(loop.order[loop.idx]))
    /\ loop' = [loop EXCEPT !.task = next_num(tasks)]
    /\ pc' = "spawned"
    /\ emitted' = Append(emitted, Event("agent_spawned", loop.order[loop.idx]))
    /\ UNCHANGED <<fixed, sessions, active_runs, manifest, cur, par, runs, invoked,
                   entry, cancel_returned>>

\* ContextSerializer.serialize(task, dep_tasks) in run_loop: no project_idea
\* argument is given, so the payload of no role holds the idea
SequentialProjectIdea(agent_type) == FALSE

\* MinimalContextSerializer.serialize(..., project_idea=session.idea if
\* agent_type == AgentType.PM else None), for a session started with an idea
ParallelProjectIdea(agent_type) == agent_type = "PM"

\* dep_tasks gathered from task.dependencies (pms.get_task finds the task),
\* the context serialized from them, claude.call_agent entered: the
\* invocation is in flight
CallAgent ==
    /\ pc = "spawned"
    /\ pc' = "calling"
    /\ invoked' = Append(invoked, loop.order[loop.idx])
    /\ loop' = [loop EXCEPT
                    !.dep_tasks = {dep_id \in Range(tasks[loop.task].dependencies) :
                                       dep_id \in DOMAIN tasks},
                    !.project_idea = SequentialProjectIdea(loop.order[loop.idx])]
    /\ UNCHANGED <<fixed, emitted, sessions, active_runs, tasks, manifest, cur, par,
                   runs, entry, cancel_returned>>

\* the completed task's id is kept in memory only
RecordCompletedUnsaved(ss, task_id) == ss

\* session.completed_tasks.append(task.id); save_session(session)
RecordCompleted(ss, task_id) ==
    [ss EXCEPT ![cur].completed_tasks = Append(@, task_id)]

\* response.success: the task and the session are saved, the files committed
\* (commit_files raises when git fails), agent_completed emitted
AgentSucceeded(has_files, commit_ok) ==
    /\ pc = "calling"
    /\ has_files \/ commit_ok
    /\ LET agent_type == loop.order[loop.idx]
           ss == RecordCompleted(sessions, loop.task)
       IN  /\ tasks' = [tasks EXCEPT ![loop.task].status = "completed"]
           /\ IF commit_ok
              THEN /\ sessions' = ss
                   /\ pc' = "loop"
                   /\ emitted' = Append(emitted, Event("agent_completed", agent_type))
                   /\ loop' = [loop EXCEPT
                          !.completed_agents = @ \cup {agent_type},
                          !.agent_task_map[agent_type] = loop.task,
                          !.idx = @ + 1]
              ELSE /\ sessions' = RaiseFromRunLoop(ss)
                   /\ pc' = "raised"
                   /\ emitted' = HandlerEmits(emitted)
                   /\ loop' = [loop EXCEPT
                          !.completed_agents = @ \cup {agent_type},
                          !.agent_task_map[agent_type] = loop.task]
    /\ UNCHANGED <<fixed, active_runs, manifest, cur, par, runs, invoked, entry,
                   cancel_returned>>

\* not response.success: agent_failed emitted, the exception leaves run_loop
AgentFailed ==
    /\ pc = "calling"
    /\ sessions' = RaiseFromRunLoop(sessions)
    /\ pc' = "raised"
    /\ loop' = [loop EXCEPT !.failed_agent = loop.order[loop.idx]]
    /\ emitted' = HandlerEmits(Append(emitted, Event("agent_failed", loop.order[loop.idx])))
    /\ UNCHANGED <<fixed, active_runs, tasks, manifest, cur, par, runs, invoked,
                   entry, cancel_returned>>

\* the loop is exhausted
LoopExhausted ==
    /\ pc = "loop"
    /\ loop.idx > Len(loop.order)
    /\ pc' = "finish"
    /\ UNCHANGED <<fixed, emitted, sessions, active_runs, tasks, manifest, cur, loop, par,
                   runs, invoked, entry, cancel_returned>>

\* after the loop: a session still in _active_runs is marked COMPLETED and
\* leaves _active_runs; a cancelled one is left as it is
FinishRunLoop ==
    /\ pc = "finish"
    /\ IF cur \in active_runs
       THEN /\ sessions' = update_status(sessions, cur, "COMPLETED")
            /\ active_runs' = active_runs \ {cur}
            /\ pc' = "create_pr"
       ELSE /\ pc' = "returned"
            /\ UNCHANGED <<sessions, active_runs>>
    /\ UNCHANGED <<fixed, emitted, tasks, manifest, cur, loop, par, runs, invoked, entry,
                   cancel_returned>>

\* pr_manager.create_pr, which raises when the gh command fails; then
\* workflow_completed is emitted and the call returns
CreatePR(ok) ==
    /\ engine = "sequential"
    /\ pc = "create_pr"
    /\ IF ok
       THEN /\ pc' = "returned"
            /\ emitted' = Append(emitted, Event("workflow_completed", "-"))
            /\ UNCHANGED sessions
       ELSE /\ pc' = "raised"
            /\ sessions' = RaiseFromRunLoop(sessions)
            /\ emitted' = HandlerEmits(emitted)
    /\ UNCHANGED <<fixed, active_runs, tasks, manifest, cur, loop, par, runs,
                   invoked, entry, cancel_returned>>

SequentialNext ==
    \/ RunLoopEnter
    \/ \E s \in DOMAIN sessions, reactivate \in BOOLEAN : ResumeRunLoop(s, reactivate)
    \/ LoopBreakCancelled
    \/ LoopSkipCompleted
    \/ LoopSpawn
    \/ CallAgent
    \/ \E has_files, commit_ok \in BOOLEAN : AgentSucceeded(has_files, commit_ok)
    \/ AgentFailed
    \/ LoopExhausted
    \/ FinishRunLoop
    \/ \E ok \in BOOLEAN : CreatePR(ok)

----------------------------------------------------------------------------
(* ParallelWorkflowEngine._run_parallel and the end of _start_workflow_async *)

\* roles of the current phase in the given state
InState(st) == {a \in AgentType : par.state[a] = st}

\* _run_parallel up to its phase loop: phases computed, the semaphore built,
\* the store's completed roles read once
RunParallelEnter ==
    /\ engine = "parallel"
    /\ pc = "enter"
    /\ LET ord == get_execution_order(config, sessions[cur].workflow_name)
           phases == IF ord.raised THEN ord ELSE compute_phases(config, ord.order)
       IN  IF ord.raised \/ phases.raised
           THEN /\ pc' = "raised"
                /\ sessions' = update_status(sessions, cur, "FAILED")
                /\ emitted' = Append(emitted, Event("workflow_failed", "-"))
                /\ UNCHANGED par
           ELSE /\ pc' = "phase"
                /\ par' = [par EXCEPT !.phases = phases.phases,
                                      !.k = 1,
                                      !.completed = get_completed_agents(manifest)]
                /\ UNCHANGED <<sessions, emitted>>
    /\ UNCHANGED <<fixed, active_runs, tasks, manifest, cur, loop, runs, invoked,
                   entry, cancel_returned>>

\* phase loop head, `if session_id not in self._active_runs: break`
PhaseBreakCancelled ==
    /\ pc = "phase"
    /\ par.k <= Len(par.phases)
    /\ cur \notin active_runs
    /\ pc' = "finalize"
    /\ UNCHANGED <<fixed, emitted, sessions, active_runs, tasks, manifest, cur, loop, par,
                   runs, invoked, entry, cancel_returned>>

\* pending_agents = [a for a in phase.agents if a not in completed]
PendingAgents == par.phases[par.k] \ par.completed

\* phase loop head for a session still in _active_runs: a phase whose roles
\* are all in `completed` is passed over; otherwise _execute_phase hands one
\* coroutine per pending role to gather, each waiting for the semaphore
ExecutePhase ==
    /\ pc = "phase"
    /\ par.k <= Len(par.phases)
    /\ cur \in active_runs
    /\ IF PendingAgents = {}
       THEN /\ par' = [par EXCEPT !.k = @ + 1]
            /\ UNCHANGED pc
       ELSE /\ par' = [par EXCEPT !.state =
                          [a \in AgentType |->
                              IF a \in PendingAgents THEN "waiting" ELSE "-"]]
            /\ pc' = "gather"
    /\ UNCHANGED <<fixed, emitted, sessions, active_runs, tasks, manifest, cur, loop, runs,
                   invoked, entry, cancel_returned>>

\* _execute_agent: the semaphore is acquired, agent_spawned emitted,
\* start_task recorded, the context built, the collaborator's subprocess
\* started
SemaphoreFreeAlways == TRUE

SemaphoreFree == Cardinality(InState("running")) < max_concurrent

ExecuteAgent(agent_type) ==
    /\ pc = "gather"
    /\ par.state[agent_type] = "waiting"
    /\ SemaphoreFree
    /\ manifest' = start_task(manifest, agent_type)
    /\ par' = [par EXCEPT
                   !.state[agent_type] = "running",
                   !.project_idea = IF ParallelProjectIdea(agent_type)
                                    THEN @ \cup {agent_type}
                                    ELSE @ \ {agent_type}]
    /\ invoked' = Append(invoked, agent_type)
    /\ emitted' = Append(emitted, Event("agent_spawned", agent_type))
    /\ UNCHANGED <<fixed, sessions, active_runs, tasks, pc, cur, loop, runs, entry,
                   cancel_returned>>

\* the collaborator returned success: artifacts processed, complete_task
\* recorded, agent_completed emitted, True returned, the semaphore released
AgentCompleted(agent_type) ==
    /\ pc = "gather"
    /\ par.state[agent_type] = "running"
    /\ manifest' = complete_task(manifest, agent_type)
    /\ par' = [par EXCEPT !.state[agent_type] = "ok"]
    /\ emitted' = Append(emitted, Event("agent_completed", agent_type))
    /\ UNCHANGED <<fixed, sessions, active_runs, tasks, pc, cur, loop, runs,
                   invoked, entry, cancel_returned>>

\* the collaborator failed: the exception is caught in _execute_agent,
\* agent_failed emitted, False returned, the semaphore released
AgentReturnedFalse(agent_type) ==
    /\ pc = "gather"
    /\ par.state[agent_type] = "running"
    /\ par' = [par EXCEPT !.state[agent_type] = "failed"]
    /\ emitted' = Append(emitted, Event("agent_failed", agent_type))
    /\ UNCHANGED <<fixed, sessions, active_runs, tasks, manifest, pc, cur, loop,
                   runs, invoked, entry, cancel_returned>>

\* gather returned: a phase with a failed role raises out of _run_parallel
\* and the handler marks the session FAILED; otherwise the next phase
PhaseFailedIgnored(failed_agents) == FALSE

PhaseFailed(failed_agents) == failed_agents # {}

\* `await asyncio.gather(*tasks)`: every coroutine of the phase has returned
GatherReturnedOnFirst == InState("ok") \cup InState("failed") # {}

GatherReturned == InState("waiting") = {} /\ InState("running") = {}

PhaseDone ==
    /\ pc = "gather"
    /\ GatherReturned
    /\ IF PhaseFailed(InState("failed"))
       THEN /\ pc' = "raised"
            /\ sessions' = update_status(sessions, cur, "FAILED")
            /\ emitted' = Append(emitted, Event("workflow_failed", "-"))
            /\ par' = [par EXCEPT !.failed_agents = InState("failed")]
       ELSE /\ pc' = "phase"
            /\ par' = [par EXCEPT !.k = @ + 1,
                                  !.state = [a \in AgentType |-> "-"]]
            /\ UNCHANGED <<sessions, emitted>>
    /\ UNCHANGED <<fixed, active_runs, tasks, manifest, cur, loop, runs, invoked,
                   entry, cancel_returned>>

\* the phases are exhausted: _run_parallel returns its metrics
PhasesExhausted ==
    /\ pc = "phase"
    /\ par.k > Len(par.phases)
    /\ pc' = "finalize"
    /\ UNCHANGED <<fixed, emitted, sessions, active_runs, tasks, manifest, cur, loop, par,
                   runs, invoked, entry, cancel_returned>>

\* Finalize: a session still in _active_runs is marked COMPLETED, leaves
\* _active_runs, and the pull request is attempted (_create_pr swallows a
\* failure); the call returns
Finalize ==
    /\ pc = "finalize"
    /\ IF cur \in active_runs
       THEN /\ sessions' = update_status(sessions, cur, "COMPLETED")
            /\ active_runs' = active_runs \ {cur}
            /\ emitted' = Append(emitted, Event("workflow_completed", "-"))
       ELSE UNCHANGED <<sessions, active_runs, emitted>>
    /\ pc' = "returned"
    /\ UNCHANGED <<fixed, tasks, manifest, cur, loop, par, runs, invoked, entry,
                   cancel_returned>>

ParallelNext ==
    \/ RunParallelEnter
    \/ PhaseBreakCancelled
    \/ ExecutePhase
    \/ \E a \in AgentType : ExecuteAgent(a)
    \/ \E a \in AgentType : AgentCompleted(a)
    \/ \E a \in AgentType : AgentReturnedFalse(a)
    \/ PhaseDone
    \/ PhasesExhausted
    \/ Finalize

----------------------------------------------------------------------------
(* The engines *)

Init ==
    /\ config = AGENT_CONFIGS_MAP
    /\ agents = <<>>
    /\ sortResult = {}
    /\ phaseResult = {}
    /\ engine \in {"sequential", "parallel"}
    /\ max_concurrent \in 1..MaxConcurrentLimit
    /\ engine = "sequential" => max_concurrent = 1
    /\ EngineInit
    /\ ArtifactsAtRest
    /\ SessionsAtRest
    /\ SerializerAtRest
    /\ EmitterAtRest
    /\ AdaptiveAtRest
    /\ BatchedAtRest
    /\ StoreAtRest

Next ==
    \/ \E w \in WorkflowType : CreateSession(w)
    \/ MarkRunning
    \/ \E results \in GitResults : CreateBranch(results)
    \/ \E s \in DOMAIN sessions : CancelWorkflow(s)
    \/ SequentialNext
    \/ ParallelNext

Spec == Init /\ [][Next]_vars

\* The steps run_loop's loop and _run_parallel's phase loop take by
\* themselves. The collaborator's return (AgentSucceeded, AgentFailed,
\* AgentCompleted, AgentReturnedFalse) is not among them: subprocess.run and
\* process.communicate wait for the subprocess without a timeout, so nothing
\* in the engines makes those steps happen.
LoopProgress ==
    \/ LoopBreakCancelled
    \/ LoopSkipCompleted
    \/ LoopSpawn
    \/ CallAgent
    \/ LoopExhausted
    \/ FinishRunLoop
    \/ \E ok \in BOOLEAN : CreatePR(ok)
    \/ PhaseBreakCancelled
    \/ ExecutePhase
    \/ \E a \in AgentType : ExecuteAgent(a)
    \/ PhaseDone
    \/ PhasesExhausted
    \/ Finalize

\* The engines, their loops running as far as they can by themselves
SpecLive == Init /\ [][Next]_vars /\ WF_vars(LoopProgress)

\* Registries with a configuration error: a cycle through all roles, a role
\* that is its own prerequisite, a role without configuration
CyclicRegistry ==
    [AGENT_CONFIGS_MAP EXCEPT !["PM"] = <<"TL_UI_WEB">>]

SelfCyclicRegistry ==
    [AGENT_CONFIGS_MAP EXCEPT !["ARCHITECT"] = <<"PM", "ARCHITECT">>]

IncompleteRegistry ==
    [a \in AgentType \ {"ARCHITECT"} |-> AGENT_CONFIGS_MAP[a]]

Registries ==
    {AGENT_CONFIGS_MAP, CyclicRegistry, SelfCyclicRegistry, IncompleteRegistry}

\* The engines over the shipped registry and the erroneous ones
ConfigInit ==
    /\ config \in Registries
    /\ agents = <<>>
    /\ sortResult = {}
    /\ phaseResult = {}
    /\ engine \in {"sequential", "parallel"}
    /\ max_concurrent \in 1..MaxConcurrentLimit
    /\ engine = "sequential" => max_concurrent = 1
    /\ EngineInit
    /\ ArtifactsAtRest
    /\ SessionsAtRest
    /\ SerializerAtRest
    /\ EmitterAtRest
    /\ AdaptiveAtRest
    /\ BatchedAtRest
    /\ StoreAtRest

SpecConfig == ConfigInit /\ [][Next]_vars

----------------------------------------------------------------------------
(* The resolver applied to generated registries and role lists *)

\* registries: every prerequisite relation over the roles with at most
\* MaxEdges edges, each role's prerequisites listed in enum order
EdgeSets == {E \in SUBSET (AgentType \X AgentType) : Cardinality(E) <= MaxEdges}

ConfigOf(E) == [a \in AgentType |-> ListOf({d \in AgentType : <<a, d>> \in E})]

\* lists of distinct roles
RECURSIVE Perms(_)
Perms(S) ==
    IF S = {} THEN {<<>>}
    ELSE UNION {{<<x>> \o p : p \in Perms(S \ {x})} : x \in S}

AgentLists == UNION {Perms(S) : S \in SUBSET AgentType}

ResolverInit ==
    /\ config \in {ConfigOf(E) : E \in EdgeSets}
    /\ agents \in AgentLists
    /\ sortResult = {}
    /\ phaseResult = {}
    /\ engine = "sequential"
    /\ max_concurrent = 1
    /\ EngineInit
    /\ ArtifactsAtRest
    /\ SessionsAtRest
    /\ SerializerAtRest
    /\ EmitterAtRest
    /\ AdaptiveAtRest
    /\ BatchedAtRest
    /\ StoreAtRest

SortAgents ==
    /\ sortResult = {}
    /\ sortResult' = {topological_sort(config, agents)}
    /\ UNCHANGED <<config, agents, phaseResult>>
    /\ UNCHANGED <<engineVars, restVars>>

ComputePhases ==
    /\ sortResult # {}
    /\ phaseResult = {}
    /\ phaseResult' = {compute_phases(config, agents)}
    /\ UNCHANGED <<config, agents, sortResult>>
    /\ UNCHANGED <<engineVars, restVars>>

ResolverNext == SortAgents \/ ComputePhases

SpecResolver == ResolverInit /\ [][ResolverNext]_vars

\* The shipped registry alone, applied to every list of distinct roles.
RegistryInit ==
    /\ config = AGENT_CONFIGS_MAP
    /\ agents \in AgentLists
    /\ sortResult = {}
    /\ phaseResult = {}
    /\ engine = "sequential"
    /\ max_concurrent = 1
    /\ EngineInit
    /\ ArtifactsAtRest
    /\ SessionsAtRest
    /\ SerializerAtRest
    /\ EmitterAtRest
    /\ AdaptiveAtRest
    /\ BatchedAtRest
    /\ StoreAtRest

SpecRegistry == RegistryInit /\ [][ResolverNext]_vars

\* FAST_AGENT_CONFIGS_MAP, the prerequisite lists for the roles of the model
FAST_AGENT_CONFIGS_MAP ==
    [a \in AgentType |->
        CASE a = "PM" -> <<>>
          [] a = "ARCHITECT" -> <<"PM">>
          [] a = "UIUX_GUI" -> <<"PM">>
          [] a = "TL_UI_WEB" -> <<"ARCHITECT", "UIUX_GUI">>]

RECURSIVE SingleSessionPhaseLoop(_, _, _, _)
\* SingleSessionOrchestrator._compute_phases, the `while remaining` loop: a
\* role is ready when it has a configuration whose prerequisites are all
\* completed; with no role ready the loop logs an error and breaks
SingleSessionPhaseLoop(cfg, remaining, completed, phases) ==
    IF remaining = {} THEN phases
    ELSE LET ready == {a \in remaining :
                          /\ a \in DOMAIN cfg
                          /\ \A d \in Range(cfg[a]) : d \in completed}
         IN  IF ready = {}
             THEN phases
             ELSE SingleSessionPhaseLoop(cfg, remaining \ ready,
                                         completed \cup ready,
                                         Append(phases, ready))

\* SingleSessionOrchestrator._compute_phases: always returns its phase list
single_session_compute_phases(cfg, execution_order) ==
    [raised |-> FALSE,
     phases |-> SingleSessionPhaseLoop(cfg, Range(execution_order), {}, <<>>)]

\* SingleSessionOrchestrator._compute_phases applied to every list of
\* distinct roles
SingleSessionInit ==
    /\ config = FAST_AGENT_CONFIGS_MAP
    /\ agents \in AgentLists
    /\ sortResult = {}
    /\ phaseResult = {}
    /\ engine = "sequential"
    /\ max_concurrent = 1
    /\ EngineInit
    /\ ArtifactsAtRest
    /\ SessionsAtRest
    /\ SerializerAtRest
    /\ EmitterAtRest
    /\ AdaptiveAtRest
    /\ BatchedAtRest
    /\ StoreAtRest

SingleSessionComputePhases ==
    /\ phaseResult = {}
    /\ phaseResult' = {single_session_compute_phases(config, agents)}
    /\ UNCHANGED <<config, agents, sortResult>>
    /\ UNCHANGED <<engineVars, restVars>>

SpecSingleSession == SingleSessionInit /\ [][SingleSessionComputePhases]_vars

\* The registry's entries for the technical-lead and developer roles of the
\* web and API layers, under their names and their legacy alias names
LEGACY_CONFIGS_MAP ==
    [a \in {"ARCHITECT", "TL_UI_WEB", "DEV_UI_WEB", "TL_CORE_API", "DEV_CORE_API",
            "TL_FRONTEND", "DEV_FRONTEND", "TL_BACKEND", "DEV_BACKEND"} |->
        CASE a = "ARCHITECT" -> <<"PM">>
          [] a = "TL_UI_WEB" -> <<"ARCHITECT", "UIUX_GUI">>
          [] a = "DEV_UI_WEB" -> <<"TL_UI_WEB">>
          [] a = "TL_CORE_API" -> <<"ARCHITECT">>
          [] a = "DEV_CORE_API" -> <<"TL_CORE_API">>
          [] a = "TL_FRONTEND" -> <<"ARCHITECT", "UIUX_GUI">>
          [] a = "DEV_FRONTEND" -> <<"TL_FRONTEND">>
          [] a = "TL_BACKEND" -> <<"ARCHITECT">>
          [] a = "DEV_BACKEND" -> <<"TL_BACKEND">>]

\* the roles the lists are drawn from: REFACTORING's roles but CQR, and
\* TL_UI_WEB
LegacyListRoles ==
    {"ARCHITECT", "TL_FRONTEND", "DEV_FRONTEND", "TL_BACKEND", "DEV_BACKEND",
     "TL_UI_WEB"}

\* The shipped entries of the legacy roles, applied to every list of distinct
\* roles among LegacyListRoles
AliasesInit ==
    /\ config = LEGACY_CONFIGS_MAP
    /\ agents \in UNION {Perms(S) : S \in SUBSET LegacyListRoles}
    /\ sortResult = {}
    /\ phaseResult = {}
    /\ engine = "sequential"
    /\ max_concurrent = 1
    /\ EngineInit
    /\ ArtifactsAtRest
    /\ SessionsAtRest
    /\ SerializerAtRest
    /\ EmitterAtRest
    /\ AdaptiveAtRest
    /\ BatchedAtRest
    /\ StoreAtRest

SpecAliases == AliasesInit /\ [][ResolverNext]_vars

----------------------------------------------------------------------------
(* Properties of the resolver *)

\* the prerequisites of role a that are in the list
InListPrerequisites(cfg, agentList, a) ==
    {d \in Range(get_agent_config(cfg, a)) : d \in Range(agentList)}

RECURSIVE Ancestors(_, _, _, _)
\* the roles reached from the set S by following in-list prerequisites,
\* in at most n further steps
Ancestors(cfg, agentList, S, n) ==
    LET step == S \cup UNION {InListPrerequisites(cfg, agentList, a) : a \in S}
    IN  IF n = 0 \/ step = S THEN S ELSE Ancestors(cfg, agentList, step, n - 1)

\* the prerequisite relation restricted to the list contains a cycle
Cyclic(cfg, agentList) ==
    \E a \in Range(agentList) :
        a \in Ancestors(cfg, agentList, InListPrerequisites(cfg, agentList, a),
                        Len(agentList))

PositionIn(order, a) == CHOOSE i \in DOMAIN order : order[i] = a

PhaseOf(phases, a) == CHOOSE k \in DOMAIN phases : a \in phases[k]

C2_PhasesPartitionEarliest ==
    \A r \in phaseResult :
        ~Cyclic(config, agents) =>
            /\ ~r.raised
            /\ UNION Range(r.phases) = Range(agents)
            /\ \A j, k \in DOMAIN r.phases : j # k => r.phases[j] \cap r.phases[k] = {}
            /\ \A a \in Range(agents) :
                   LET pre == InListPrerequisites(config, agents, a)
                   IN  /\ \A d \in pre : PhaseOf(r.phases, d) < PhaseOf(r.phases, a)
                       /\ pre = {} => PhaseOf(r.phases, a) = 1
                       /\ pre # {} =>
                              \E d \in pre :
                                  PhaseOf(r.phases, a) = PhaseOf(r.phases, d) + 1

\* C3: when the prerequisite relation restricted to the list contains a
\* cycle, topological_sort and _compute_phases both raise; neither returns.
C3_CycleRaisesInBoth ==
    Cyclic(config, agents) =>
        /\ \A r \in sortResult : r.raised
        /\ \A r \in phaseResult : r.raised

\* C3 witness: a cycle through two of three listed roles, both calls made.
C3_Witness ==
    /\ Cyclic(config, agents)
    /\ Len(agents) = 3
    /\ \E a \in Range(agents) : InListPrerequisites(config, agents, a) = {}
    /\ \E r \in sortResult : r.raised
    /\ \E r \in phaseResult : r.raised

----------------------------------------------------------------------------
(* Properties of the engines *)

\* the roles of the workflow the current call runs
WorkflowRoles ==
    IF engine = "sequential" THEN Range(loop.order) ELSE UNION Range(par.phases)

\* the roles whose collaborator invocation is in flight
InFlight ==
    IF engine = "sequential"
    THEN IF pc = "calling" THEN {loop.order[loop.idx]} ELSE {}
    ELSE IF pc = "gather" THEN InState("running") ELSE {}

\* role d's successful completion is recorded for the current session:
\* a completed task of the session (sequential), the manifest (parallel)
RecordedCompleted(d) ==
    IF engine = "sequential"
    THEN \E t \in Range(sessions[cur].completed_tasks) :
             tasks[t].agent_type = d /\ tasks[t].status = "completed"
    ELSE d \in Range(manifest.completed)

\* C4: while a role's collaborator invocation is in flight, in either engine,
\* every prerequisite of the role that belongs to the running workflow is
\* recorded as completed in the session.
C4_PrerequisitesCompletedBeforeInvocation ==
    \A a \in InFlight :
        \A d \in Range(get_agent_config(config, a)) \cap WorkflowRoles :
            RecordedCompleted(d)

\* C4 witness: the sequential engine invoking TL_UI_WEB, which has two
\* prerequisites in the workflow.
C4_Witness ==
    /\ engine = "sequential"
    /\ pc = "calling"
    /\ loop.order[loop.idx] = "TL_UI_WEB"
    /\ RecordedCompleted("ARCHITECT")
    /\ RecordedCompleted("UIUX_GUI")

\* the roles of the execution order not completed when run_loop began
RemainingAtEntry == SelectSeq(loop.order, LAMBDA a : a \notin entry.completed)

IsPrefix(p, q) == Len(p) <= Len(q) /\ \A i \in DOMAIN p : p[i] = q[i]

\* C5: run_loop never invokes, nor creates a task for, a role that had a
\* completed task in the session when it began; the roles it invokes are the
\* remaining roles of the execution order, in order from the first one, and
\* all of them once the loop has run to its end.
C5_RunLoopSkipsCompleted ==
    (engine = "sequential" /\ loop.order # <<>>) =>
        /\ \A i \in DOMAIN invoked : invoked[i] \notin entry.completed
        /\ \A t \in DOMAIN tasks :
               t > entry.ntasks => tasks[t].agent_type \notin entry.completed
        /\ IsPrefix(invoked, RemainingAtEntry)
        /\ pc = "create_pr" => invoked = RemainingAtEntry

\* C5 witness: run_loop on a session in which PM (alone) was completed has
\* invoked ARCHITECT as its first role.
C5_Witness ==
    /\ engine = "sequential"
    /\ ~loop.via_start
    /\ entry.completed = {"PM"}
    /\ pc = "calling"
    /\ invoked = <<"ARCHITECT">>

\* C6: in the parallel engine a role the manifest records as completed when
\* start_workflow begins a run is not invoked in that run.
C6_StoreCompletedNotReinvoked ==
    engine = "parallel" => \A a \in entry.completed : a \notin Range(invoked)

\* C7: in the sequential engine a failed invocation ends the call: the step
\* that takes the failure invokes nothing, raises and, under start_workflow,
\* leaves the session FAILED; the failed role is the last one invoked.
C7_SequentialFailureAborts ==
    /\ [][(pc = "calling" /\ loop'.failed_agent # "") =>
              /\ pc' = "raised"
              /\ invoked' = invoked
              /\ loop.via_start => sessions'[cur].status = "FAILED"]_vars
    /\ [](pc = "raised" /\ loop.failed_agent # "" =>
              /\ invoked # <<>>
              /\ invoked[Len(invoked)] = loop.failed_agent)

\* C7 witness: start_workflow has raised on ARCHITECT's failure with roles
\* still to run, and the session is FAILED.
C7_Witness ==
    /\ engine = "sequential"
    /\ loop.via_start
    /\ pc = "raised"
    /\ loop.failed_agent = "ARCHITECT"
    /\ loop.idx < Len(loop.order)
    /\ invoked = <<"PM", "ARCHITECT">>
    /\ sessions[cur].status = "FAILED"

\* the roles of the phases up to the current one
RolesUpToPhase(k) == UNION {par.phases[j] : j \in 1..k}

\* C8: in the parallel engine a phase with a failed role ends the run: the
\* step that closes the phase raises and leaves the session FAILED, no role of
\* a later phase was or is invoked, and every role of the phase that succeeded
\* is in the manifest's completed list.
C8_ParallelPhaseFailureAborts ==
    /\ [][(pc = "gather" /\ pc' # "gather" /\ InState("failed") # {}) =>
              /\ pc' = "raised"
              /\ invoked' = invoked
              /\ sessions'[cur].status = "FAILED"]_vars
    /\ [](engine = "parallel" /\ pc = "raised" /\ par.failed_agents # {} =>
              /\ Range(invoked) \subseteq RolesUpToPhase(par.k)
              /\ InState("ok") \subseteq Range(manifest.completed))

\* C8 witness: phase 2 closed with ARCHITECT succeeded and UIUX_GUI failed.
C8_Witness ==
    /\ engine = "parallel"
    /\ pc = "raised"
    /\ par.k = 2
    /\ par.state["ARCHITECT"] = "ok"
    /\ par.failed_agents = {"UIUX_GUI"}
    /\ "ARCHITECT" \in Range(manifest.completed)
    /\ sessions[cur].status = "FAILED"

TerminalStatus == {"COMPLETED", "FAILED", "CANCELLED"}

\* C9: a session's status only moves PENDING -> RUNNING -> {COMPLETED,
\* FAILED, CANCELLED}, and a terminal status never changes again.
C9_StatusMonotonic ==
    [][\A s \in DOMAIN sessions :
           LET old == sessions[s].status
               new == sessions'[s].status
           IN  old # new =>
                   \/ old = "PENDING" /\ new = "RUNNING"
                   \/ old = "RUNNING" /\ new \in TerminalStatus]_vars

\* C10: once cancel_workflow has returned for a session, no collaborator
\* invocation is started for it, in either engine.
C10_NoInvocationAfterCancel ==
    [][Len(invoked') = Len(invoked) + 1 => cur \notin cancel_returned]_vars

\* the number of the phase a role belongs to (0: none)
PhaseNumber(a) ==
    IF \E j \in DOMAIN par.phases : a \in par.phases[j]
    THEN CHOOSE j \in DOMAIN par.phases : a \in par.phases[j]
    ELSE 0

\* roles whose coroutine was started and has not yet returned
Unfinished == InState("running")

\* C11: in the parallel engine the step that starts a role of some phase finds
\* no started role of an earlier phase still unfinished, and every role started
\* in an earlier phase has its terminal outcome recorded (a phase with a failed
\* role ends the run, so an earlier phase's roles are all completed).
C11_PhaseBarrier ==
    /\ [][(engine = "parallel" /\ Len(invoked') = Len(invoked) + 1) =>
              \A a \in Unfinished :
                  PhaseNumber(a) >= PhaseNumber(invoked'[Len(invoked')])]_vars
    /\ [](engine = "parallel" =>
              \A i, j \in DOMAIN invoked :
                  PhaseNumber(invoked[i]) < PhaseNumber(invoked[j]) =>
                      /\ invoked[i] \in Range(manifest.completed)
                      /\ manifest.tasks[invoked[i]] = "completed")

\* C11 witness: TL_UI_WEB of phase 3 in flight after both roles of phase 2.
C11_Witness ==
    /\ engine = "parallel"
    /\ par.k = 3
    /\ par.state["TL_UI_WEB"] = "running"
    /\ invoked = <<"PM", "UIUX_GUI", "ARCHITECT", "TL_UI_WEB">>

\* C12: in a parallel run the number of collaborator invocations in flight
\* never exceeds max_concurrent.
C12_ConcurrencyBounded ==
    engine = "parallel" => Cardinality(InState("running")) <= max_concurrent

\* C12 witness: with max_concurrent = 1, ARCHITECT is in flight while UIUX_GUI
\* of the same phase waits for the semaphore.
C12_Witness ==
    /\ engine = "parallel"
    /\ max_concurrent = 1
    /\ par.state["ARCHITECT"] = "running"
    /\ par.state["UIUX_GUI"] = "waiting"

----------------------------------------------------------------------------
(* Artifact processing of a successful response, both engines *)

\* the project root, /proj, and a symbolic link /proj/lnk -> /etc
root_path == <<"proj">>

SymlinkAt == <<"proj", "lnk">>

SymlinkTarget == <<"etc">>

Directories == {<<>>, root_path, SymlinkTarget}

PathSegment == {"..", "proj", "f", "lnk"}

RECURSIVE SeqsUpTo(_, _)
SeqsUpTo(S, n) ==
    IF n = 0 THEN {<<>>}
    ELSE LET shorter == SeqsUpTo(S, n - 1)
         IN  shorter \cup {Append(q, x) : q \in shorter, x \in S}

\* path strings: absolute or relative, up to MaxPathLen segments; the
\* relative path without segments is the empty string
Paths ==
    {[abs |-> b, segs |-> q] : b \in BOOLEAN, q \in SeqsUpTo(PathSegment, MaxPathLen)}
        \ {[abs |-> TRUE, segs |-> <<>>]}

\* Path.resolve(): `..` leaves a directory, a symbolic link is followed
RECURSIVE ResolveFrom(_, _)
ResolveFrom(at, segs) ==
    IF segs = <<>> THEN at
    ELSE LET seg == Head(segs)
             nxt == IF seg = ".."
                    THEN IF at = <<>> THEN <<>> ELSE SubSeq(at, 1, Len(at) - 1)
                    ELSE IF Append(at, seg) = SymlinkAt THEN SymlinkTarget
                         ELSE Append(at, seg)
         IN  ResolveFrom(nxt, Tail(segs))

\* `artifact_path.resolve()` if absolute, else `(root_path / artifact_path).resolve()`
Resolve(path) == ResolveFrom(IF path.abs THEN <<>> ELSE root_path, path.segs)

\* fpath.is_relative_to(root_path)
is_relative_to_anything(fpath, root) == TRUE

is_relative_to(fpath, root) ==
    Len(root) <= Len(fpath) /\ SubSeq(fpath, 1, Len(root)) = root

\* fpath.exists()
exists_trusted(fpath, files) == TRUE

exists(fpath, files) == fpath \in files \cup Directories

\* the artifacts a collaborator may report: a file by path (with content,
\* which the path branch must ignore), a file by name and content only, a
\* file with neither, and an artifact of another type
Artifacts ==
    {[type |-> "file", path |-> q, name |-> q, content |-> TRUE] :
         q \in Paths \ {NoPath}}
    \cup {[type |-> "file", path |-> NoPath, name |-> q, content |-> TRUE] :
              q \in Paths \ {NoPath}}
    \cup {[type |-> "file", path |-> NoPath, name |-> NoPath, content |-> FALSE],
          [type |-> "plan", path |-> NoPath, name |-> NoPath, content |-> TRUE]}

\* `for artifact in response.artifacts`
NextArtifact(artifact) ==
    /\ art.pc = "loop"
    /\ art.n < MaxArtifacts
    /\ art' = [art EXCEPT !.pc = "body", !.artifact = artifact, !.n = @ + 1]
    /\ UNCHANGED <<config, agents, sortResult, phaseResult, engineVars, disk, store, race, sm,
          ctx, emitter, adaptive, batched>>

\* the branch an artifact takes: reported by path, legacy content, or neither
TakesPathBranch(artifact) == artifact.type = "file" /\ artifact.path # NoPath

TakesLegacyBranch(artifact) ==
    /\ engine = "sequential"
    /\ ~TakesPathBranch(artifact)
    /\ artifact.type = "file"
    /\ artifact.content

\* the loop body: an escaping path is logged as a security error and passed
\* over, a missing file is logged as a warning and passed over
ProcessArtifact ==
    /\ art.pc = "body"
    /\ LET artifact == art.artifact
           next == [art EXCEPT !.pc = "loop", !.artifact = NoArtifact]
       IN  IF TakesPathBranch(artifact)
           THEN LET fpath == Resolve(artifact.path)
                IN  /\ art' = IF ~is_relative_to(fpath, root_path)
                              THEN [next EXCEPT !.security_errors = @ + 1]
                              ELSE IF exists(fpath, disk)
                              THEN [next EXCEPT !.created_files = Append(@, fpath)]
                              ELSE [next EXCEPT !.missing_warnings = @ + 1]
                    /\ UNCHANGED disk
           ELSE IF TakesLegacyBranch(artifact)
           THEN LET fpath == Resolve(artifact.name)
                IN  IF ~is_relative_to(fpath, root_path)
                    THEN /\ art' = [next EXCEPT !.security_errors = @ + 1]
                         /\ UNCHANGED disk
                    ELSE IF fpath \in Directories
                    THEN \* write_text on a directory raises
                         /\ art' = [next EXCEPT !.pc = "raised", !.raised = TRUE]
                         /\ UNCHANGED disk
                    ELSE /\ disk' = disk \cup {fpath}
                         /\ art' = [next EXCEPT !.written = @ \cup {fpath},
                                                !.created_files = Append(@, fpath)]
           ELSE art' = next /\ UNCHANGED disk
    /\ UNCHANGED <<config, agents, sortResult, phaseResult, engineVars, store, race, sm,
          ctx, emitter, adaptive, batched>>

\* after the loop: the sequential engine stores created_files in the task's
\* context_files, saves the task as completed and commits the files
\* (commit_files raises when git fails); the parallel engine hands the list to
\* complete_task
FinishArtifacts(commit_ok) ==
    /\ art.pc = "loop"
    /\ IF engine = "sequential" /\ art.created_files # <<>>
       THEN art' = [art EXCEPT
                !.pc = IF commit_ok THEN "done" ELSE "raised",
                !.raised = ~commit_ok,
                !.registered = art.created_files,
                !.task_status = "completed",
                !.committed = IF commit_ok THEN art.created_files ELSE <<>>]
       ELSE /\ commit_ok
            /\ art' = [art EXCEPT !.pc = "done",
                                  !.registered = art.created_files,
                                  !.task_status = "completed"]
    /\ UNCHANGED <<config, agents, sortResult, phaseResult, engineVars, disk, store, race, sm,
          ctx, emitter, adaptive, batched>>

\* what the collaborator may have left on disk
DiskCandidates == {<<"proj", "f">>, <<"proj", "proj">>, <<"f">>}

ArtifactsInit ==
    /\ config = AGENT_CONFIGS_MAP
    /\ agents = <<>>
    /\ sortResult = {}
    /\ phaseResult = {}
    /\ engine \in {"sequential", "parallel"}
    /\ max_concurrent = 1
    /\ EngineInit
    /\ disk \in SUBSET DiskCandidates
    /\ art = [NoArt EXCEPT !.pc = "loop", !.task_status = "in_progress"]
    /\ StoreAtRest
    /\ SessionsAtRest
    /\ SerializerAtRest
    /\ EmitterAtRest
    /\ AdaptiveAtRest
    /\ BatchedAtRest

ArtifactsNext ==
    \/ \E artifact \in Artifacts : NextArtifact(artifact)
    \/ ProcessArtifact
    \/ \E commit_ok \in BOOLEAN : FinishArtifacts(commit_ok)

SpecArtifacts == ArtifactsInit /\ [][ArtifactsNext]_vars

----------------------------------------------------------------------------
(* TaskFileStore called directly, one call after another *)

\* what the engine variables hold while only the store is exercised
EngineStill ==
    /\ config = AGENT_CONFIGS_MAP
    /\ agents = <<>>
    /\ sortResult = {}
    /\ phaseResult = {}
    /\ engine = "parallel"
    /\ max_concurrent = 1
    /\ sessions = <<>>
    /\ active_runs = {}
    /\ tasks = <<>>
    /\ pc = "idle"
    /\ cur = 0
    /\ loop = NoLoop
    /\ par = NoPar
    /\ runs = 0
    /\ invoked = <<>>
    /\ entry = NoEntry
    /\ cancel_returned = {}
    /\ emitted = <<>>

nonManifestVars ==
    <<config, agents, sortResult, phaseResult, engine, max_concurrent, sessions,
      active_runs, tasks, pc, cur, loop, par, runs, invoked, entry,
      cancel_returned, emitted, art, disk, sm, ctx, emitter, adaptive, batched>>

\* one call op(agent) on the store: the manifest after it, and whether the
\* call raised instead of returning
StoreCall(op, agent, after) ==
    /\ store.calls < MaxStoreCalls
    /\ manifest' = after
    /\ LET raised == op # "start" /\ ~HasTaskEntry(manifest, agent)
       IN  store' = [store EXCEPT
               !.calls = @ + 1,
               !.last_op[agent] = IF raised THEN @ ELSE op,
               !.completes[agent] = IF op = "complete" /\ ~raised THEN @ + 1 ELSE @,
               !.last_call = [op |-> op, agent |-> agent, raised |-> raised]]
    /\ UNCHANGED <<nonManifestVars, race>>

StartTask(agent) == StoreCall("start", agent, start_task(manifest, agent))

CompleteTask(agent) == StoreCall("complete", agent, complete_task(manifest, agent))

FailTask(agent) == StoreCall("fail", agent, fail_task(manifest, agent))

StoreInit ==
    /\ EngineStill
    /\ ArtifactsAtRest
    /\ SessionsAtRest
    /\ SerializerAtRest
    /\ EmitterAtRest
    /\ AdaptiveAtRest
    /\ BatchedAtRest
    /\ manifest = initialize_session(NoManifest, AgentTypeOrder)
    /\ StoreAtRest

StoreNext ==
    \/ \E agent \in AgentType : StartTask(agent)
    \/ \E agent \in AgentType : CompleteTask(agent)
    \/ \E agent \in AgentType : FailTask(agent)

SpecStore == StoreInit /\ [][StoreNext]_vars

----------------------------------------------------------------------------
(* TaskFileStore called by two writers at once, one file operation at a time *)

Writers == {1, 2}

\* the read-modify-write a store operation performs on its copy of the manifest
Updated(op, m, agent) ==
    CASE op = "start" -> start_task(m, agent)
      [] op = "complete" -> complete_task(m, agent)
      [] OTHER -> fail_task(m, agent)

\* flock: LOCK_SH is granted unless another descriptor holds LOCK_EX,
\* LOCK_EX only when no other descriptor holds a lock
OthersLocks(w) == {l \in race.lock : l[1] # w}

CanLockShared(w) == \A l \in OthersLocks(w) : l[2] # "EX"

CanLockExclusive(w) == OthersLocks(w) = {}

RaceStep(w, from, to) ==
    /\ w \in DOMAIN race.w
    /\ race.w[w].pc = from
    /\ race' = [race EXCEPT !.w[w].pc = to]
    /\ UNCHANGED <<nonManifestVars, store, manifest>>

\* _read_json_with_lock: open(path, "r")
ReadOpen(w) == RaceStep(w, "start", "r_lock")

\* fcntl.flock(f.fileno(), fcntl.LOCK_SH)
ReadLock(w) ==
    /\ w \in DOMAIN race.w
    /\ race.w[w].pc = "r_lock"
    /\ CanLockShared(w)
    /\ race' = [race EXCEPT !.w[w].pc = "r_load", !.lock = @ \cup {<<w, "SH">>}]
    /\ UNCHANGED <<nonManifestVars, store, manifest>>

\* json.load(f); on a file another writer has just truncated it raises, the
\* finally clause unlocks and the operation ends with the exception
ReadLoad(w) ==
    /\ w \in DOMAIN race.w
    /\ race.w[w].pc = "r_load"
    /\ race' = IF race.truncated
               THEN [race EXCEPT !.w[w].pc = "raised", !.lock = @ \ {<<w, "SH">>}]
               ELSE [race EXCEPT !.w[w].pc = "r_unlock", !.w[w].local = manifest]
    /\ UNCHANGED <<nonManifestVars, store, manifest>>

\* fcntl.flock(f.fileno(), fcntl.LOCK_UN); the operation then changes its copy
\* (complete_task and fail_task raise KeyError without a task entry)
ReadUnlock(w) ==
    /\ w \in DOMAIN race.w
    /\ race.w[w].pc = "r_unlock"
    /\ LET me == race.w[w]
           raises == me.op # "start" /\ ~HasTaskEntry(me.local, me.agent)
       IN  race' = [race EXCEPT
               !.lock = @ \ {<<w, "SH">>},
               !.w[w].pc = IF raises THEN "raised" ELSE "w_open",
               !.w[w].local = Updated(me.op, me.local, me.agent)]
    /\ UNCHANGED <<nonManifestVars, store, manifest>>

\* _write_json_with_lock: open(path, "w") truncates the file at once
WriteOpen(w) ==
    /\ w \in DOMAIN race.w
    /\ race.w[w].pc = "w_open"
    /\ race' = [race EXCEPT !.w[w].pc = "w_lock", !.truncated = TRUE]
    /\ UNCHANGED <<nonManifestVars, store, manifest>>

\* fcntl.flock(f.fileno(), fcntl.LOCK_EX)
WriteLock(w) ==
    /\ w \in DOMAIN race.w
    /\ race.w[w].pc = "w_lock"
    /\ CanLockExclusive(w)
    /\ race' = [race EXCEPT !.w[w].pc = "w_dump", !.lock = @ \cup {<<w, "EX">>}]
    /\ UNCHANGED <<nonManifestVars, store, manifest>>

\* json.dump(data, f)
WriteDump(w) ==
    /\ w \in DOMAIN race.w
    /\ race.w[w].pc = "w_dump"
    /\ manifest' = race.w[w].local
    /\ race' = [race EXCEPT !.w[w].pc = "w_unlock", !.truncated = FALSE]
    /\ UNCHANGED <<nonManifestVars, store>>

\* fcntl.flock(f.fileno(), fcntl.LOCK_UN): the operation returns
WriteUnlock(w) ==
    /\ w \in DOMAIN race.w
    /\ race.w[w].pc = "w_unlock"
    /\ race' = [race EXCEPT !.w[w].pc = "done", !.lock = @ \ {<<w, "EX">>}]
    /\ UNCHANGED <<nonManifestVars, store, manifest>>

StoreOps == {"start", "complete", "fail"}

\* the roles the two writers work on
WriterAgent == <<"ARCHITECT", "UIUX_GUI">>

\* a session in which PM is completed and each writer's role is pending if
\* the writer is to start it, in_progress otherwise
ManifestBefore(ops) ==
    LET m0 == initialize_session(NoManifest, AgentTypeOrder)
        m1 == complete_task(start_task(m0, "PM"), "PM")
        m2 == IF ops[1] = "start" THEN m1 ELSE start_task(m1, WriterAgent[1])
    IN  IF ops[2] = "start" THEN m2 ELSE start_task(m2, WriterAgent[2])

RaceInit ==
    /\ EngineStill
    /\ ArtifactsAtRest
    /\ SessionsAtRest
    /\ SerializerAtRest
    /\ EmitterAtRest
    /\ AdaptiveAtRest
    /\ BatchedAtRest
    /\ store = NoStore
    /\ \E ops \in [Writers -> StoreOps] :
           /\ manifest = ManifestBefore(ops)
           /\ race = [lock |-> {}, truncated |-> FALSE,
                      w |-> [w \in Writers |->
                                [pc |-> "start", op |-> ops[w],
                                 agent |-> WriterAgent[w], local |-> NoManifest]]]

RaceNext ==
    \E w \in Writers :
        \/ ReadOpen(w)
        \/ ReadLock(w)
        \/ ReadLoad(w)
        \/ ReadUnlock(w)
        \/ WriteOpen(w)
        \/ WriteLock(w)
        \/ WriteDump(w)
        \/ WriteUnlock(w)

SpecStoreRace == RaceInit /\ [][RaceNext]_vars

----------------------------------------------------------------------------
(* SessionManager instances sharing one .sessions directory *)

Instances == {1, 2}

\* load_session: the instance's cached object if there is one, else the file
\* (None when there is none), which is then cached
IsCached(inst, id) == sm.cache[inst][id] # NoSession

load_session(inst, id) ==
    IF IsCached(inst, id) THEN sm.cache[inst][id]
    ELSE IF id \in DOMAIN sm.files THEN sm.files[id] ELSE NoSession

\* save_session: the object is cached and its JSON written to the file; op
\* names the call that saved
save_session(op, inst, id, session) ==
    [sm EXCEPT !.cache[inst][id] = session,
               !.files = IF id \in DOMAIN @ THEN [@ EXCEPT ![id] = session]
                         ELSE Append(@, session),
               !.ops = @ + 1,
               !.last = [op |-> op, inst |-> inst, id |-> id, returned |-> session]]

SessionIds == 1..MaxSessionCalls

\* the calls that end in save_session
SavingCalls == {"create_session", "save_session", "update_status"}

smOtherVars ==
    <<config, agents, sortResult, phaseResult, engineVars, art, disk, store, race,
      ctx, emitter, adaptive, batched>>

\* create_session(workflow_name): a fresh id, status PENDING, saved
SMCreateSession(inst, workflow_name) ==
    /\ sm.ops < MaxSessionCalls
    /\ sm' = save_session("create_session", inst, Len(sm.files) + 1,
                          [workflow_name |-> workflow_name, status |-> "PENDING",
                           completed_tasks |-> <<>>])
    /\ UNCHANGED smOtherVars

\* update_status(session_id, status)
SMUpdateStatus(inst, id, status) ==
    /\ sm.ops < MaxSessionCalls
    /\ LET session == load_session(inst, id)
       IN  IF session = NoSession
           THEN sm' = [sm EXCEPT !.ops = @ + 1]
           ELSE sm' = save_session("update_status", inst, id,
                                   [session EXCEPT !.status = status])
    /\ UNCHANGED smOtherVars

\* the engine's use of save_session: the loaded session gets a completed task
\* appended and is saved
SMSaveSession(inst, id, task_id) ==
    /\ sm.ops < MaxSessionCalls
    /\ load_session(inst, id) # NoSession
    /\ sm' = save_session("save_session", inst, id,
                          [load_session(inst, id) EXCEPT
                               !.completed_tasks = Append(@, task_id)])
    /\ UNCHANGED smOtherVars

\* load_session(session_id) by a caller, which keeps what it returned
SMLoadSession(inst, id) ==
    /\ sm.ops < MaxSessionCalls
    /\ LET session == load_session(inst, id)
       IN  sm' = [sm EXCEPT !.cache[inst][id] = session,
                            !.ops = @ + 1,
                            !.last = [op |-> "load_session", inst |-> inst,
                                      id |-> id, returned |-> session]]
    /\ UNCHANGED smOtherVars

SessionsInit ==
    /\ EngineStill
    /\ manifest = NoManifest
    /\ ArtifactsAtRest
    /\ StoreAtRest
    /\ sm = [NoSM EXCEPT
                 !.cache = [i \in Instances |-> [id \in SessionIds |-> NoSession]]]
    /\ SerializerAtRest
    /\ EmitterAtRest
    /\ AdaptiveAtRest
    /\ BatchedAtRest

SessionsNext ==
    \E inst \in Instances :
        \/ SMCreateSession(inst, "FULL_APP_GENERATION")
        \/ \E id \in DOMAIN sm.files, status \in {"RUNNING", "COMPLETED"} :
               SMUpdateStatus(inst, id, status)
        \/ \E id \in DOMAIN sm.files : SMSaveSession(inst, id, 1)
        \/ \E id \in DOMAIN sm.files : SMLoadSession(inst, id)

SpecSessions == SessionsInit /\ [][SessionsNext]_vars

----------------------------------------------------------------------------
(* ContextSerializer.serialize and the structural parse of its output *)

\* A text is a sequence of characters: a plain one and the reserved ones
TextChars == {"a", "<", ">", "&", "'", "\""}

Texts == UNION {[1..n -> TextChars] : n \in 0..MaxTextLen}

RECURSIVE Replace(_, _, _)
\* str.replace(old, new) for a single character old
Replace(text, old, new) ==
    IF text = <<>> THEN <<>>
    ELSE (IF Head(text) = old THEN new ELSE <<Head(text)>>)
             \o Replace(Tail(text), old, new)

\* _escape_xml: the five replacements in the order of the code
escape_xml(text) ==
    LET amp == Replace(text, "&", <<"&", "a", "m", "p", ";">>)
        lt == Replace(amp, "<", <<"&", "l", "t", ";">>)
        gt == Replace(lt, ">", <<"&", "g", "t", ";">>)
        quot == Replace(gt, "\"", <<"&", "q", "u", "o", "t", ";">>)
    IN  Replace(quot, "'", <<"&", "a", "p", "o", "s", ";">>)

\* ContextSerializer.serialize for a task with one dependency task: the
\* document as the sequence of the tags written and of the characters put
\* between them (description as given; the summary, written when it is not
\* empty, escaped)
serialize(task_id, agent_role, description, summary) ==
    <<"<task_context>", "<task_id>">> \o task_id \o <<"</task_id>">>
        \o <<"<agent_role>">> \o agent_role \o <<"</agent_role>">>
        \o <<"<description>">> \o description \o <<"</description>">>
        \o <<"<dependencies>", "<dependency>">>
        \o (IF summary # <<>>
            THEN <<"<summary>">> \o escape_xml(summary) \o <<"</summary>">>
            ELSE <<>>)
        \o <<"</dependency>", "</dependencies>", "</task_context>">>

\* the predefined entities of the markup
Entities ==
    [name \in {<<"a", "m", "p">>, <<"l", "t">>, <<"g", "t">>,
               <<"q", "u", "o", "t">>, <<"a", "p", "o", "s">>} |->
        CASE name = <<"a", "m", "p">> -> "&"
          [] name = <<"l", "t">> -> "<"
          [] name = <<"g", "t">> -> ">"
          [] name = <<"q", "u", "o", "t">> -> "\""
          [] name = <<"a", "p", "o", "s">> -> "'"]

\* position of the first ch in s, 0 when there is none
IndexOf(s, ch) ==
    IF \E i \in DOMAIN s : s[i] = ch
    THEN CHOOSE i \in DOMAIN s : s[i] = ch /\ \A j \in 1..(i - 1) : s[j] # ch
    ELSE 0

RECURSIVE CharacterData(_)
\* what a markup parser makes of an element's character data: a "<" that
\* starts no tag and a "&" that starts no entity are not well-formed
CharacterData(s) ==
    IF s = <<>> THEN [ok |-> TRUE, text |-> <<>>]
    ELSE IF Head(s) = "<" THEN [ok |-> FALSE, text |-> <<>>]
    ELSE IF Head(s) = "&"
         THEN LET k == IndexOf(s, ";")
              IN  IF k = 0 \/ SubSeq(s, 2, k - 1) \notin DOMAIN Entities
                  THEN [ok |-> FALSE, text |-> <<>>]
                  ELSE LET rest == CharacterData(SubSeq(s, k + 1, Len(s)))
                       IN  [ok |-> rest.ok,
                            text |-> <<Entities[SubSeq(s, 2, k - 1)]>> \o rest.text]
    ELSE LET rest == CharacterData(Tail(s))
         IN  [ok |-> rest.ok, text |-> <<Head(s)>> \o rest.text]

\* the character data between the element's start tag and its end tag,
\* empty when the document has no such element
ElementText(doc, name) ==
    CharacterData(SubSeq(doc, IndexOf(doc, "<" \o name \o ">") + 1,
                         IndexOf(doc, "</" \o name \o ">") - 1))

\* parsing the document as markup: nothing is recovered from a document that
\* is not well-formed
parse(doc) ==
    LET task_id == ElementText(doc, "task_id")
        agent_role == ElementText(doc, "agent_role")
        description == ElementText(doc, "description")
        summary == ElementText(doc, "summary")
    IN  IF task_id.ok /\ agent_role.ok /\ description.ok /\ summary.ok
        THEN [ok |-> TRUE, task_id |-> task_id.text, agent_role |-> agent_role.text,
              description |-> description.text, summary |-> summary.text]
        ELSE NoCtx.parsed

\* the id and the role of the task serialized
SerializedTaskId == <<"TASK-0001">>
SerializedRole == <<"ARCHITECT">>

ctxOtherVars ==
    <<config, agents, sortResult, phaseResult, engineVars, art, disk, store, race,
      sm, emitter, adaptive, batched>>

Serialize ==
    /\ ctx.pc = "task"
    /\ ctx' = [ctx EXCEPT
                   !.pc = "serialized",
                   !.doc = serialize(SerializedTaskId, SerializedRole,
                                     ctx.description, ctx.summary)]
    /\ UNCHANGED ctxOtherVars

ParseDocument ==
    /\ ctx.pc = "serialized"
    /\ ctx' = [ctx EXCEPT !.pc = "parsed", !.parsed = parse(ctx.doc)]
    /\ UNCHANGED ctxOtherVars

\* every task description and dependency summary up to MaxTextLen characters
SerializerInit ==
    /\ EngineStill
    /\ manifest = NoManifest
    /\ ArtifactsAtRest
    /\ StoreAtRest
    /\ SessionsAtRest
    /\ EmitterAtRest
    /\ AdaptiveAtRest
    /\ BatchedAtRest
    /\ \E description \in Texts, summary \in Texts :
           ctx = [NoCtx EXCEPT !.pc = "task",
                               !.description = description,
                               !.summary = summary]

SerializerNext == Serialize \/ ParseDocument

SpecSerializer == SerializerInit /\ [][SerializerNext]_vars

----------------------------------------------------------------------------
(* EventEmitter: on, off and emit *)

\* listeners registered over all events
RegisteredCount(e) ==
    LET events == DOMAIN e.listeners
        RECURSIVE Sum(_)
        Sum(S) == IF S = {} THEN 0
                  ELSE LET x == CHOOSE x \in S : TRUE
                       IN  Len(e.listeners[x]) + Sum(S \ {x})
    IN  Sum(events)

\* the listeners the loop of emit calls: each in turn, up to and including
\* the first one that raises
CalledBy(list) ==
    LET i == IndexOf(list, "raises")
    IN  IF i = 0 THEN list ELSE SubSeq(list, 1, i)

emitterOtherVars ==
    <<config, agents, sortResult, phaseResult, engineVars, art, disk, store, race,
      sm, ctx, adaptive, batched>>

\* EventEmitter.on
On(event, listener) ==
    /\ RegisteredCount(emitter) < MaxListeners
    /\ emitter' = [emitter EXCEPT
                       !.listeners = IF event \in DOMAIN @
                                     THEN [@ EXCEPT ![event] = Append(@, listener)]
                                     ELSE (event :> <<listener>>) @@ @,
                       !.registered[event][listener] = @ + 1]
    /\ UNCHANGED emitterOtherVars

\* EventEmitter.off
Off(event, listener) ==
    /\ event \in DOMAIN emitter.listeners
    /\ \E i \in DOMAIN emitter.listeners[event] : emitter.listeners[event][i] = listener
    /\ emitter' = [emitter EXCEPT
                       !.listeners[event] = Remove(@, listener),
                       !.registered[event][listener] = @ - 1]
    /\ UNCHANGED emitterOtherVars

\* EventEmitter.emit: a raising listener ends the loop and the exception
\* leaves emit
Emit(event) ==
    /\ emitter' = [emitter EXCEPT
                       !.event = event,
                       !.called = IF event \in DOMAIN emitter.listeners
                                  THEN CalledBy(emitter.listeners[event])
                                  ELSE <<>>,
                       !.raised = /\ event \in DOMAIN emitter.listeners
                                  /\ IndexOf(emitter.listeners[event], "raises") # 0]
    /\ UNCHANGED emitterOtherVars

EmitterInit ==
    /\ EngineStill
    /\ manifest = NoManifest
    /\ ArtifactsAtRest
    /\ StoreAtRest
    /\ SessionsAtRest
    /\ SerializerAtRest
    /\ EmitterAtRest
    /\ AdaptiveAtRest
    /\ BatchedAtRest

EmitterNext ==
    \/ \E event \in Events, listener \in Listeners : On(event, listener)
    \/ \E event \in Events, listener \in Listeners : Off(event, listener)
    \/ \E event \in Events : Emit(event)

SpecEmitter == EmitterInit /\ [][EmitterNext]_vars

----------------------------------------------------------------------------
(* The whole role registry: every AgentType and every AGENT_CONFIGS_MAP entry *)

\* The members of the AgentType enum, in declaration order.
FullAgentTypeOrder ==
    <<"PM", "ARCHITECT", "UIUX_GUI", "UIUX_CLI", "TEST", "CQR", "SR", "DOE",
      "TL_UI_WEB", "DEV_UI_WEB", "TL_UI_MOBILE", "DEV_UI_MOBILE",
      "TL_UI_DESKTOP", "DEV_UI_DESKTOP", "TL_UI_CLI", "DEV_UI_CLI",
      "TL_CORE_API", "DEV_CORE_API", "TL_CORE_SYSTEMS", "DEV_CORE_SYSTEMS",
      "TL_CORE_LIBRARY", "DEV_CORE_LIBRARY", "DEV_PLATFORM_IOS",
      "DEV_PLATFORM_ANDROID", "DEV_PLATFORM_WINDOWS", "DEV_PLATFORM_LINUX",
      "DEV_PLATFORM_MACOS", "DEV_PLATFORM_EMBEDDED",
      "DEV_INTEGRATION_DATABASE", "DEV_INTEGRATION_API",
      "DEV_INTEGRATION_NETWORK", "DEV_INTEGRATION_HARDWARE", "TL_CONTENT",
      "DEV_CONTENT", "TL_GRAPHICS", "DEV_GRAPHICS", "UIUX", "TL_FRONTEND",
      "DEV_FRONTEND", "TL_BACKEND", "DEV_BACKEND">>

FullAgentType == Range(FullAgentTypeOrder)

\* The keys of the AGENT_CONFIGS_MAP literal, in the order written.
ConfiguredRoles ==
    {"PM", "ARCHITECT", "UIUX_GUI", "UIUX_CLI", "TEST", "CQR", "SR", "DOE",
     "TL_UI_WEB", "DEV_UI_WEB", "TL_UI_MOBILE", "DEV_UI_MOBILE",
     "TL_UI_DESKTOP", "DEV_UI_DESKTOP", "TL_UI_CLI", "DEV_UI_CLI",
     "TL_CORE_API", "DEV_CORE_API", "TL_CORE_SYSTEMS", "DEV_CORE_SYSTEMS",
     "TL_CORE_LIBRARY", "DEV_CORE_LIBRARY", "DEV_PLATFORM_IOS",
     "DEV_PLATFORM_ANDROID", "DEV_PLATFORM_WINDOWS", "DEV_PLATFORM_LINUX",
     "DEV_PLATFORM_MACOS", "DEV_PLATFORM_EMBEDDED", "DEV_INTEGRATION_DATABASE",
     "DEV_INTEGRATION_API", "DEV_INTEGRATION_NETWORK",
     "DEV_INTEGRATION_HARDWARE", "TL_CONTENT", "DEV_CONTENT", "TL_GRAPHICS",
     "DEV_GRAPHICS", "UIUX", "TL_FRONTEND", "DEV_FRONTEND", "TL_BACKEND",
     "DEV_BACKEND"}

\* every role listing ARCHITECT as its prerequisite
DependenciesOnArchitect(a) == <<"ARCHITECT">>

\* `dependencies` of the role's AgentConfig entry in AGENT_CONFIGS_MAP
DependenciesOf(a) ==
    CASE a \in {"PM", "TEST", "CQR", "SR", "DOE"} ->
             <<>>
      [] a \in {"ARCHITECT", "UIUX_GUI", "UIUX_CLI", "TL_CONTENT",
                "TL_GRAPHICS", "UIUX"} ->
             <<"PM">>
      [] a \in {"TL_UI_WEB", "TL_UI_MOBILE", "TL_UI_DESKTOP", "TL_FRONTEND"} ->
             <<"ARCHITECT", "UIUX_GUI">>
      [] a \in {"TL_UI_CLI"} ->
             <<"ARCHITECT", "UIUX_CLI">>
      [] a \in {"TL_CORE_API", "TL_CORE_SYSTEMS", "TL_CORE_LIBRARY",
                "DEV_PLATFORM_IOS", "DEV_PLATFORM_ANDROID",
                "DEV_PLATFORM_WINDOWS", "DEV_PLATFORM_LINUX",
                "DEV_PLATFORM_MACOS", "DEV_PLATFORM_EMBEDDED",
                "DEV_INTEGRATION_DATABASE", "DEV_INTEGRATION_API",
                "DEV_INTEGRATION_NETWORK", "DEV_INTEGRATION_HARDWARE",
                "TL_BACKEND"} ->
             <<"ARCHITECT">>
      [] a = "DEV_UI_WEB" -> <<"TL_UI_WEB">>
      [] a = "DEV_UI_MOBILE" -> <<"TL_UI_MOBILE">>
      [] a = "DEV_UI_DESKTOP" -> <<"TL_UI_DESKTOP">>
      [] a = "DEV_UI_CLI" -> <<"TL_UI_CLI">>
      [] a = "DEV_CORE_API" -> <<"TL_CORE_API">>
      [] a = "DEV_CORE_SYSTEMS" -> <<"TL_CORE_SYSTEMS">>
      [] a = "DEV_CORE_LIBRARY" -> <<"TL_CORE_LIBRARY">>
      [] a = "DEV_CONTENT" -> <<"TL_CONTENT">>
      [] a = "DEV_GRAPHICS" -> <<"TL_GRAPHICS">>
      [] a = "DEV_FRONTEND" -> <<"TL_FRONTEND">>
      [] a = "DEV_BACKEND" -> <<"TL_BACKEND">>

\* AGENT_CONFIGS_MAP as written: the prerequisite list of every configured role
FullRegistry == [a \in ConfiguredRoles |-> DependenciesOf(a)]

\* WORKFLOW_TEMPLATES as written: the role list of every WorkflowType
AllWorkflowTemplates ==
    [w \in {"FULL_APP_GENERATION", "FEATURE_ADDITION", "BUG_FIX", "REFACTORING",
            "TEST_GENERATION", "CODE_REVIEW", "SECURITY_AUDIT"} |->
        CASE w = "FULL_APP_GENERATION" -> FullAgentTypeOrder
          [] w = "FEATURE_ADDITION" ->
                 <<"PM", "ARCHITECT", "UIUX_GUI", "UIUX_CLI", "TL_FRONTEND",
                   "TL_BACKEND", "DEV_FRONTEND", "DEV_BACKEND", "TEST", "CQR",
                   "SR", "DOE">>
          [] w = "BUG_FIX" ->
                 <<"PM", "TL_FRONTEND", "TL_BACKEND", "DEV_FRONTEND",
                   "DEV_BACKEND", "TEST">>
          [] w = "REFACTORING" ->
                 <<"ARCHITECT", "TL_FRONTEND", "TL_BACKEND", "DEV_FRONTEND",
                   "DEV_BACKEND", "CQR">>
          [] w = "TEST_GENERATION" -> <<"TEST">>
          [] w = "CODE_REVIEW" -> <<"CQR">>
          [] w = "SECURITY_AUDIT" -> <<"SR">>]

\* The lists resolved against the whole registry: every single role, every
\* two distinct roles in both orders, and the list of every workflow template
\* (list(AgentType) among them)
FullRegistryLists ==
    {<<a>> : a \in FullAgentType}
        \cup {list \in FullAgentType \X FullAgentType : list[1] # list[2]}
        \cup Range(AllWorkflowTemplates)

FullRegistryInit ==
    /\ config = FullRegistry
    /\ agents \in FullRegistryLists
    /\ sortResult = {}
    /\ phaseResult = {}
    /\ engine = "sequential"
    /\ max_concurrent = 1
    /\ EngineInit
    /\ ArtifactsAtRest
    /\ SessionsAtRest
    /\ SerializerAtRest
    /\ EmitterAtRest
    /\ AdaptiveAtRest
    /\ BatchedAtRest
    /\ StoreAtRest

SpecFullRegistry == FullRegistryInit /\ [][ResolverNext]_vars

----------------------------------------------------------------------------
(* AdaptiveOrchestrator.run_workflow *)

\* agent names that spawn requests and skip decisions carry
AdaptiveAgents == {"PM", "architect-system", "DEV_UI_WEB"}

\* what _run_agent returns: None when the agent failed, else an AgentOutput
\* with the agents it asks to spawn next and the agents it decides to skip
AgentOutputs ==
    [spawn_next : UNION {[1..n -> AdaptiveAgents] : n \in 0..MaxSpawnNext},
     skip_agents : SUBSET AdaptiveAgents]

\* a SpawnRequest: the agent and the reason, here the agent that asked for it
SpawnRequest(agent, reason) == <<agent, reason>>

adaptiveOtherVars ==
    <<config, agents, sortResult, phaseResult, engineVars, art, disk, store, race,
      sm, ctx, emitter, batched>>

\* run_workflow up to its while loop
RunWorkflow ==
    /\ adaptive.pc = "-"
    /\ adaptive' = [adaptive EXCEPT
                        !.pc = "loop",
                        !.pending_spawns = <<SpawnRequest("PM", "Initial analysis")>>]
    /\ UNCHANGED adaptiveOtherVars

\* _get_parallel_batch: the first pending request
get_parallel_batch(pending) == IF pending # <<>> THEN <<pending[1]>> ELSE <<>>

\* pending_spawns = [s for s in pending_spawns if s not in batch]
WithoutBatch(pending, batch) ==
    SelectSeq(pending, LAMBDA sp : sp \notin Range(batch))

\* `if spawn.agent in self.skipped_agents: continue`
IsSkippedNever(agent) == FALSE

IsSkipped(agent) == agent \in adaptive.skipped_agents

\* one turn of the while loop whose spawn is passed over: its agent was
\* skipped or has completed
PassOverSpawn ==
    /\ adaptive.pc = "loop"
    /\ adaptive.pending_spawns # <<>>
    /\ LET batch == get_parallel_batch(adaptive.pending_spawns)
           spawn == batch[1]
       IN  /\ IsSkipped(spawn[1]) \/ spawn[1] \in adaptive.completed_agents
           /\ adaptive' = [adaptive EXCEPT
                  !.pending_spawns = WithoutBatch(@, batch),
                  !.passed_over = IF IsSkipped(spawn[1])
                                  THEN @ \cup {spawn[1]}
                                  ELSE @]
    /\ UNCHANGED adaptiveOtherVars

\* one turn of the while loop whose agent fails: _run_agent returns None
RunAgentFails ==
    /\ adaptive.pc = "loop"
    /\ adaptive.pending_spawns # <<>>
    /\ LET batch == get_parallel_batch(adaptive.pending_spawns)
           spawn == batch[1]
       IN  /\ ~IsSkipped(spawn[1])
           /\ spawn[1] \notin adaptive.completed_agents
           /\ adaptive' = [adaptive EXCEPT
                  !.pending_spawns = WithoutBatch(@, batch),
                  !.ran = Append(@, [agent |-> spawn[1],
                                     declared |-> adaptive.declared])]
    /\ UNCHANGED adaptiveOtherVars

\* one turn of the while loop whose agent runs and returns output:
\* _process_agent_output records the skips and returns the spawn requests
\* whose agent is not skipped
RunAgent(output) ==
    /\ adaptive.pc = "loop"
    /\ adaptive.pending_spawns # <<>>
    /\ LET batch == get_parallel_batch(adaptive.pending_spawns)
           spawn == batch[1]
           skipped == adaptive.skipped_agents \cup output.skip_agents
           new_spawns == SelectSeq(output.spawn_next, LAMBDA a : a \notin skipped)
       IN  /\ ~IsSkipped(spawn[1])
           /\ spawn[1] \notin adaptive.completed_agents
           /\ adaptive' = [adaptive EXCEPT
                  !.pending_spawns =
                      WithoutBatch(@, batch)
                          \o [i \in DOMAIN new_spawns |->
                                 SpawnRequest(new_spawns[i], spawn[1])],
                  !.completed_agents = @ \cup {spawn[1]},
                  !.skipped_agents = skipped,
                  !.declared = @ \cup output.skip_agents,
                  !.ran = Append(@, [agent |-> spawn[1],
                                     declared |-> adaptive.declared])]
    /\ UNCHANGED adaptiveOtherVars

\* pending_spawns is empty: _finalize_workflow, run_workflow returns
FinalizeWorkflow ==
    /\ adaptive.pc = "loop"
    /\ adaptive.pending_spawns = <<>>
    /\ adaptive' = [adaptive EXCEPT !.pc = "returned"]
    /\ UNCHANGED adaptiveOtherVars

AdaptiveInit ==
    /\ EngineStill
    /\ manifest = NoManifest
    /\ ArtifactsAtRest
    /\ StoreAtRest
    /\ SessionsAtRest
    /\ SerializerAtRest
    /\ EmitterAtRest
    /\ AdaptiveAtRest
    /\ BatchedAtRest

AdaptiveNext ==
    \/ RunWorkflow
    \/ PassOverSpawn
    \/ RunAgentFails
    \/ \E output \in AgentOutputs : RunAgent(output)
    \/ FinalizeWorkflow

SpecAdaptive == AdaptiveInit /\ [][AdaptiveNext]_vars

----------------------------------------------------------------------------
(* BatchedGitManager: start_phase, stage_change, commit_phase *)

\* names of the phases a caller starts; stage_change itself starts "Default"
PhaseNames == {"Planning", "Build"}

\* CommitPhase(name=phase_name): a phase without changes
CommitPhase(name) == [name |-> name, changes |-> <<>>]

\* `self.current_phase and self.current_phase.changes`
HasChanges(b) ==
    /\ b.current_phase # <<>>
    /\ b.current_phase[1].changes # <<>>

\* commit_phase: nothing to commit returns True; git add and git commit
\* succeeding moves the phase to _pending_phases and clears current_phase;
\* CalledProcessError returns False and leaves the manager as it was
commit_phase(b, git_ok) ==
    IF ~HasChanges(b) THEN [returned |-> TRUE, manager |-> b]
    ELSE IF git_ok
         THEN [returned |-> TRUE,
               manager |-> [b EXCEPT
                               !.pending_phases = Append(@, b.current_phase[1]),
                               !.current_phase = <<>>]]
         ELSE [returned |-> FALSE, manager |-> b]

\* start_phase: a current phase with changes is committed first, the result
\* of that commit is not looked at, and current_phase becomes a new phase
start_phase(b, phase_name, git_ok) ==
    LET after == IF HasChanges(b) THEN commit_phase(b, git_ok).manager ELSE b
    IN  [after EXCEPT !.current_phase = <<CommitPhase(phase_name)>>]

\* stage_change: without a current phase "Default" is started; the change is
\* appended to the current phase's changes
stage_change(b, change) ==
    LET started == IF b.current_phase = <<>>
                   THEN start_phase(b, "Default", TRUE)
                   ELSE b
    IN  [started EXCEPT !.current_phase[1].changes = Append(@, change)]

batchedOtherVars ==
    <<config, agents, sortResult, phaseResult, engineVars, art, disk, store, race,
      sm, ctx, emitter, adaptive>>

\* a call of start_phase(phase_name); git_ok: whether the git commands of the
\* automatic commit succeed
StartPhase(phase_name, git_ok) ==
    /\ batched.calls < MaxGitCalls
    /\ git_ok \/ HasChanges(batched)
    /\ batched' = [start_phase(batched, phase_name, git_ok) EXCEPT
                       !.calls = batched.calls + 1]
    /\ UNCHANGED batchedOtherVars

\* a call of stage_change for a file not staged before
StageChange ==
    /\ batched.calls < MaxGitCalls
    /\ batched' = [stage_change(batched, batched.staged + 1) EXCEPT
                       !.staged = batched.staged + 1,
                       !.calls = batched.calls + 1]
    /\ UNCHANGED batchedOtherVars

\* a call of commit_phase()
CommitPhaseCall(git_ok) ==
    /\ batched.calls < MaxGitCalls
    /\ git_ok \/ HasChanges(batched)
    /\ batched' = [commit_phase(batched, git_ok).manager EXCEPT
                       !.calls = batched.calls + 1]
    /\ UNCHANGED batchedOtherVars

BatchedInit ==
    /\ EngineStill
    /\ manifest = NoManifest
    /\ ArtifactsAtRest
    /\ StoreAtRest
    /\ SessionsAtRest
    /\ SerializerAtRest
    /\ EmitterAtRest
    /\ AdaptiveAtRest
    /\ BatchedAtRest

BatchedNext ==
    \/ \E phase_name \in PhaseNames, git_ok \in BOOLEAN : StartPhase(phase_name, git_ok)
    \/ StageChange
    \/ \E git_ok \in BOOLEAN : CommitPhaseCall(git_ok)

SpecBatchedGit == BatchedInit /\ [][BatchedNext]_vars

----------------------------------------------------------------------------
(* Properties of artifact processing *)

\* the location lies in the project root's tree
InsideRoot(loc) == loc # <<>> /\ loc[1] = "proj"

\* the path the engine would use for the artifact resolves outside the root
Escapes(artifact) ==
    \/ TakesPathBranch(artifact) /\ ~InsideRoot(Resolve(artifact.path))
    \/ TakesLegacyBranch(artifact) /\ ~InsideRoot(Resolve(artifact.name))

\* C13: in both engines every location written, registered for the role or
\* passed to commit lies inside the project root; processing an artifact whose
\* path escapes the root writes nothing, registers nothing and does not fail
\* the role.
C13_ArtifactsStayInsideRoot ==
    /\ [](\A loc \in Range(art.created_files) \cup art.written
                     \cup Range(art.registered) \cup Range(art.committed) :
              InsideRoot(loc))
    /\ [][(art.pc = "body" /\ Escapes(art.artifact)) =>
              /\ art'.pc = "loop"
              /\ ~art'.raised
              /\ art'.created_files = art.created_files
              /\ art'.written = art.written
              /\ disk' = disk]_vars

\* C13 witness: the only artifact was passed over as escaping although a file
\* exists outside the root at /f, and the role went on to be completed.
C13_Witness ==
    /\ art.pc = "done"
    /\ art.n = 1
    /\ art.security_errors = 1
    /\ <<"f">> \in disk
    /\ art.registered = <<>>
    /\ art.written = {}
    /\ art.task_status = "completed"

\* C14: an artifact reported with a path inside the project root is registered
\* exactly when the file exists when the engine checks it; a missing file is
\* dropped without raising, and the role is recorded as completed with the
\* files registered so far.
C14_RegisteredIffOnDisk ==
    /\ [][(art.pc = "body" /\ TakesPathBranch(art.artifact)
                /\ InsideRoot(Resolve(art.artifact.path))) =>
              /\ art'.pc = "loop"
              /\ ~art'.raised
              /\ art'.created_files =
                     IF Resolve(art.artifact.path) \in disk \cup Directories
                     THEN Append(art.created_files, Resolve(art.artifact.path))
                     ELSE art.created_files]_vars
    /\ [][(art.pc = "loop" /\ art'.pc # "loop" /\ art'.pc # "body") =>
              /\ art'.task_status = "completed"
              /\ art'.registered = art.created_files]_vars

\* C14 witness: of two artifacts reported by path one was missing on disk and
\* dropped, the other registered, and the role is completed.
C14_Witness ==
    /\ art.pc = "done"
    /\ art.n = 2
    /\ art.missing_warnings = 1
    /\ art.written = {}
    /\ Len(art.registered) = 1
    /\ art.task_status = "completed"

----------------------------------------------------------------------------
(* Properties of the task store *)

Occurrences(list, x) == Cardinality({i \in DOMAIN list : list[i] = x})

\* C16: a complete_task call for a role already in the completed list leaves
\* the list as it is, and after every complete_task(R) call that returns R
\* occurs in the list exactly once, however many such calls were made.
C16_CompleteTaskIdempotent ==
    /\ [][(store'.calls = store.calls + 1 /\ store'.last_call.op = "complete"
                /\ ~store'.last_call.raised) =>
              LET R == store'.last_call.agent
              IN  /\ Occurrences(manifest'.completed, R) = 1
                  /\ R \in Range(manifest.completed) =>
                         manifest'.completed = manifest.completed]_vars
    /\ [](\A a \in AgentType :
              /\ Occurrences(manifest.completed, a) <= 1
              /\ store.completes[a] > 0 => a \in Range(manifest.completed))

\* C16 witness: complete_task(PM) has returned twice and PM is in the list once.
C16_Witness ==
    /\ store.completes["PM"] = 2
    /\ manifest.completed = <<"PM">>

\* the manifest lists that hold the role
ListsHolding(a) ==
    {l \in {"pending", "in_progress", "completed"} : a \in Range(manifest[l])}

\* C17: after any sequence of start_task, complete_task and fail_task calls
\* each role is in at most one of pending, in_progress and completed, the one
\* its latest operation assigns: pending if none, in_progress after start_task,
\* completed after complete_task, none after fail_task.
C17_ListsMatchLatestOperation ==
    \A a \in AgentType :
        ListsHolding(a) =
            CASE store.last_op[a] = "none" -> {"pending"}
              [] store.last_op[a] = "start" -> {"in_progress"}
              [] store.last_op[a] = "complete" -> {"completed"}
              [] OTHER -> {}

\* the manifest shows the effect of writer w's operation
Reflects(w) ==
    LET me == race.w[w]
    IN  CASE me.op = "start" ->
                 /\ me.agent \in Range(manifest.in_progress)
                 /\ manifest.tasks[me.agent] = "in_progress"
          [] me.op = "complete" ->
                 /\ me.agent \in Range(manifest.completed)
                 /\ manifest.tasks[me.agent] = "completed"
          [] OTHER ->
                 /\ me.agent \notin Range(manifest.in_progress)
                 /\ manifest.tasks[me.agent] = "failed"

\* C15: when two writers update the same manifest concurrently, for different
\* roles, then once both calls have returned the manifest reflects both
\* updates.
C15_NoLostUpdate ==
    (race.w # <<>> /\ \A w \in Writers : race.w[w].pc = "done") =>
        \A w \in Writers : Reflects(w)

----------------------------------------------------------------------------
(* Properties of the session store *)

\* C18: once create_session, save_session or update_status has returned, the
\* session file holds the session the call saved, and load_session of that id
\* on every SessionManager instance of the directory returns that record
C18_LoadReturnsPersisted ==
    sm.last.op \in SavingCalls =>
        /\ sm.files[sm.last.id] = sm.last.returned
        /\ \A inst \in Instances :
               load_session(inst, sm.last.id) = sm.files[sm.last.id]

----------------------------------------------------------------------------
(* Properties of TaskManager *)

\* C19: create_task calls made one after another return an id that no
\* existing task has and that is greater than every id returned before, and
\* leave the record of every existing task as it was
C19_TaskIdsFreshAndIncreasing ==
    [][pc = "loop" /\ pc' = "spawned" =>
           LET task_id == loop'.task
           IN  /\ task_id \notin DOMAIN tasks
               /\ \A i \in DOMAIN tasks : i < task_id /\ tasks'[i] = tasks[i]
               /\ task_id \in DOMAIN tasks'
               /\ tasks'[task_id].status = "pending"]_vars

\* a second task was created while the first task's record exists
C19_Witness ==
    /\ pc = "spawned"
    /\ loop.task = 2
    /\ DOMAIN tasks = {1, 2}
    /\ tasks[1].status = "completed"

----------------------------------------------------------------------------
(* Properties of configuration errors *)

\* resolving the roles of the current session's workflow fails: the
\* execution order raises, or in the parallel engine the phases do
ResolutionFails ==
    /\ cur \in DOMAIN sessions
    /\ LET ord == get_execution_order(config, sessions[cur].workflow_name)
       IN  \/ ord.raised
           \/ engine = "parallel" /\ compute_phases(config, ord.order).raised

\* C20: when resolving the roles of the selected workflow fails with a
\* configuration error, no role is invoked and the call never gets past the
\* resolution: it has raised or is on its way to it, in both engines
C20_ConfigErrorRaisedBeforeInvocation ==
    ResolutionFails =>
        /\ invoked = <<>>
        /\ pc \in {"created", "branch", "enter", "raised"}

\* start_workflow of the sequential engine has raised from run_loop on a
\* registry whose error stops the selected workflow and the fallback alike
C20_Witness ==
    /\ ResolutionFails
    /\ engine = "sequential"
    /\ loop.via_start
    /\ sessions[cur].workflow_name = "REFACTORING"
    /\ pc = "raised"
    /\ sessions[cur].status = "FAILED"
    /\ invoked = <<>>

----------------------------------------------------------------------------
(* Properties of the collaborator's invocation *)

\* a collaborator's subprocess is being waited for
AwaitingCollaborator ==
    \/ engine = "sequential" /\ pc = "calling"
    \/ engine = "parallel" /\ pc = "gather" /\ InState("running") # {}

\* C21: every invocation of a collaborator has a bounded wait: whether or not
\* the collaborator returns, the wait ends and the call of the engine comes to
\* its end with the session in a terminal status
C21_InvocationWaitBounded ==
    AwaitingCollaborator ~>
        /\ pc \in {"returned", "raised"}
        /\ sessions[cur].status \in TerminalStatus

----------------------------------------------------------------------------
(* Properties of the version-control steps *)

\* C22: when a role's collaborator has succeeded in the sequential engine, the
\* role's task is completed, the loop goes on to the roles after it and the
\* session's status is left as it was, whether or not the commit of the
\* role's files succeeded
C22_CommitFailureNotFatal ==
    [][engine = "sequential" /\ pc = "calling" /\ pc' # "calling"
           /\ tasks'[loop.task].status = "completed"
       => /\ pc' = "loop"
          /\ loop'.idx = loop.idx + 1
          /\ sessions'[cur].status = sessions[cur].status]_vars

\* C23: when create_branch fails and checkout_branch succeeds the run goes on
\* to its roles; start_workflow raises at the branch exactly when both git
\* calls failed, and then no collaborator has been invoked
C23_BranchFallback ==
    [][pc = "branch" /\ pc' # "branch"
       => /\ entry'.git = <<FALSE, TRUE>> => pc' = "enter"
          /\ pc' = "raised" <=> entry'.git = <<FALSE, FALSE>>
          /\ pc' = "raised" => invoked' = <<>>]_vars

\* a run whose branch was checked out after create_branch failed has invoked
\* a collaborator
C23_Witness ==
    /\ entry.git = <<FALSE, TRUE>>
    /\ invoked # <<>>

----------------------------------------------------------------------------
(* Properties of what a sequential run leaves behind *)

\* the roles completed for the current session when the run stopped: those
\* completed when run_loop was entered and those invoked since, except the
\* role that failed
CompletedBeforeFailure ==
    entry.completed \cup (Range(invoked) \ {loop.failed_agent})

\* C24: when a role has failed in the sequential engine and the session is
\* FAILED, the roles of the tasks in the session's completed_tasks are
\* exactly the roles completed before the failure, which a later run_loop
\* skips, and each of those tasks is saved with status completed
C24_FailurePreservesCompleted ==
    /\ engine = "sequential"
    /\ pc = "raised"
    /\ loop.failed_agent \in AgentType
    /\ sessions[cur].status = "FAILED"
    => /\ CompletedAgents(tasks, sessions[cur].completed_tasks)
              = CompletedBeforeFailure
       /\ \A t \in Range(sessions[cur].completed_tasks) :
              t \in DOMAIN tasks /\ tasks[t].status = "completed"

\* the second role of a run failed after the first had completed
C24_Witness ==
    /\ engine = "sequential"
    /\ pc = "raised"
    /\ loop.failed_agent = "ARCHITECT"
    /\ sessions[cur].status = "FAILED"
    /\ CompletedBeforeFailure = {"PM"}
    /\ invoked = <<"PM", "ARCHITECT">>

\* the positions of session.completed_tasks whose task is of role a
RecordedFor(a) ==
    {i \in DOMAIN sessions[cur].completed_tasks :
        /\ sessions[cur].completed_tasks[i] \in DOMAIN tasks
        /\ tasks[sessions[cur].completed_tasks[i]].agent_type = a}

\* C25: when a run of the sequential engine has ended with the session
\* COMPLETED, completed_tasks holds exactly one task for each role of the
\* execution order and nothing else
C25_CompletedListsEachRoleOnce ==
    /\ engine = "sequential"
    /\ pc \in {"create_pr", "returned"}
    /\ sessions[cur].status = "COMPLETED"
    => /\ \A a \in Range(loop.order) : Cardinality(RecordedFor(a)) = 1
       /\ Len(sessions[cur].completed_tasks) = Len(loop.order)

\* a resumed run has completed a session of four roles, one of them
\* completed by an earlier run
C25_Witness ==
    /\ engine = "sequential"
    /\ pc = "create_pr"
    /\ sessions[cur].status = "COMPLETED"
    /\ ~loop.via_start
    /\ entry.completed # {}
    /\ invoked # <<>>
    /\ Len(loop.order) = Cardinality(AgentType)

----------------------------------------------------------------------------
(* Properties of legacy alias names *)

\* technical-lead and developer roles under their legacy alias names
LegacyPairs == {<<"TL_BACKEND", "DEV_BACKEND">>, <<"TL_FRONTEND", "DEV_FRONTEND">>}

\* C26: whenever a list holds a technical-lead role and its developer role
\* under their legacy alias names, in whatever order, topological_sort
\* returns an order with the developer role after the technical-lead role
C26_AliasDeveloperAfterLead ==
    \A res \in sortResult :
        \A pair \in LegacyPairs :
            pair[1] \in Range(agents) /\ pair[2] \in Range(agents) =>
                /\ ~res.raised
                /\ PositionIn(res.order, pair[1]) < PositionIn(res.order, pair[2])

----------------------------------------------------------------------------
(* Properties of SingleSessionOrchestrator._compute_phases *)

\* C27: the phase list SingleSessionOrchestrator._compute_phases returns has
\* every role of the list it was given in exactly one phase, and every
\* prerequisite of a role that is in the list in an earlier phase
C27_SingleSessionPhasesCoverList ==
    \A res \in phaseResult :
        \A a \in Range(agents) :
            /\ Cardinality({k \in DOMAIN res.phases : a \in res.phases[k]}) = 1
            /\ \A d \in Range(config[a]) \cap Range(agents) :
                   /\ \E k \in DOMAIN res.phases : d \in res.phases[k]
                   /\ PhaseOf(res.phases, d) < PhaseOf(res.phases, a)

----------------------------------------------------------------------------
(* Properties of ContextSerializer *)

\* C28: whatever reserved characters the task's and the dependency's texts
\* hold, parsing the serialized context as markup succeeds and recovers the
\* task id, the role and the dependency's summary unchanged
C28_SerializeRoundTrip ==
    ctx.pc = "parsed" =>
        /\ ctx.parsed.ok
        /\ ctx.parsed.task_id = SerializedTaskId
        /\ ctx.parsed.agent_role = SerializedRole
        /\ ctx.parsed.summary = ctx.summary

----------------------------------------------------------------------------
(* Properties of EventEmitter *)

\* C29: an exception raised by a listener does not leave emit, and every
\* listener registered for the event is called whatever the others do
C29_ListenerFailureIsolated ==
    [][\A event \in Events :
           Emit(event) =>
               /\ ~emitter'.raised
               /\ event \in DOMAIN emitter.listeners
                      => emitter'.called = emitter.listeners[event]]_vars

----------------------------------------------------------------------------
(* Properties of the whole registry *)

RECURSIVE RegistryAncestors(_, _)
\* the roles reachable from the roles of S along prerequisite entries
RegistryAncestors(cfg, S) ==
    LET step == S \cup UNION {Range(cfg[a]) \cap DOMAIN cfg : a \in S \cap DOMAIN cfg}
    IN  IF step = S THEN S ELSE RegistryAncestors(cfg, step)

\* C30: get_agent_config finds a configuration for every AgentType, every
\* prerequisite a registry entry lists is itself a configured role, and no
\* role is reachable from itself along prerequisites; so the sort of any list
\* and the phases of list(AgentType) raise nothing
C30_RegistryClosedAndAcyclic ==
    /\ \A a \in FullAgentType : HasConfig(config, a)
    /\ \A a \in DOMAIN config : Range(config[a]) \subseteq DOMAIN config
    /\ \A a \in DOMAIN config : a \notin RegistryAncestors(config, Range(config[a]))
    /\ \A r \in sortResult : ~r.raised /\ Range(r.order) = Range(agents)
    /\ \A r \in phaseResult : agents = FullAgentTypeOrder => ~r.raised

\* the whole enum has been sorted and split into phases
C30_Witness ==
    /\ agents = FullAgentTypeOrder
    /\ \E r \in sortResult : ~r.raised /\ Len(r.order) = Len(FullAgentTypeOrder)
    /\ \E r \in phaseResult : ~r.raised /\ UNION Range(r.phases) = FullAgentType

----------------------------------------------------------------------------
(* Properties of the parallel engine's task store records *)

\* C31: in the parallel engine a role whose invocation failed is recorded as
\* failed in the task store (its task entry has status failed and it is not
\* listed in in_progress), and no role is listed in in_progress once its
\* phase has finished
C31_FailedRoleRecordedInStore ==
    engine = "parallel" =>
        /\ \A a \in AgentType :
               par.state[a] = "failed" =>
                   /\ manifest.tasks[a] = "failed"
                   /\ a \notin Range(manifest.in_progress)
        /\ pc \in {"phase", "finalize", "returned", "raised"}
               => manifest.in_progress = <<>>

----------------------------------------------------------------------------
(* Properties of a manifest read that runs beside a manifest write *)

\* C32: a get_manifest that runs while another caller writes the manifest
\* loads a complete manifest, the one in the file before the write or the one
\* after it, never an empty or partly written file
C32_ReadSeesCompleteManifest ==
    [][\A w \in Writers :
           ReadLoad(w) =>
               /\ race'.w[w].pc = "r_unlock"
               /\ race'.w[w].local = manifest]_vars

----------------------------------------------------------------------------
(* Properties of the sequential engine's task dependencies *)

\* the tasks of this session, completed, of the prerequisite roles of a role
PrerequisiteTasks(agent_type) ==
    {t \in Range(sessions[cur].completed_tasks) :
         /\ t \in DOMAIN tasks
         /\ tasks[t].status = "completed"
         /\ tasks[t].agent_type \in Range(get_agent_config(config, agent_type))}

----------------------------------------------------------------------------
(* Properties of the idea in the context payload *)

\* C34: in both engines, for a session started with an idea, the context
\* payload handed to a role holds the idea text exactly when the role has no
\* prerequisites (the first role of the session)
C34_IdeaInFirstPayloadOnly ==
    /\ (engine = "sequential" /\ pc = "calling") =>
           (loop.project_idea
                <=> get_agent_config(config, loop.order[loop.idx]) = <<>>)
    /\ engine = "parallel" =>
           \A a \in AgentType :
               par.state[a] \in {"running", "ok", "failed"} =>
                   (a \in par.project_idea <=> get_agent_config(config, a) = <<>>)

----------------------------------------------------------------------------
(* Properties of AdaptiveOrchestrator *)

\* C35: once an agent's output has declared a skip for an agent, that agent
\* is not run afterwards in the workflow, whether its spawn request was
\* already queued or is made later
C35_SkippedAgentNeverRun ==
    \A i \in DOMAIN adaptive.ran :
        adaptive.ran[i].agent \notin adaptive.ran[i].declared

\* a request queued by PM was passed over because a later agent's output
\* had declared its agent's skip; that agent never ran and the workflow
\* returned
C35_Witness ==
    /\ adaptive.pc = "returned"
    /\ \E a \in adaptive.passed_over \cap adaptive.declared :
           /\ \A i \in DOMAIN adaptive.ran : adaptive.ran[i].agent # a
           /\ \E i \in DOMAIN adaptive.ran :
                  /\ adaptive.ran[i].agent # "PM"
                  /\ a \notin adaptive.ran[i].declared

----------------------------------------------------------------------------
(* Properties of EventEmitter's bookkeeping *)

\* C36: after any on and off calls, emit(event) calls every listener once
\* for each of its registrations for that event still standing, and no
\* listener that is registered only for other events
C36_EmitCallsStandingRegistrations ==
    [][\A event \in Events :
           Emit(event) =>
               \A l \in Listeners :
                   Occurrences(emitter'.called, l) = emitter.registered[event][l]]_vars

----------------------------------------------------------------------------
(* Properties of the status start_workflow leaves behind *)

\* C37: whenever start_workflow has returned or raised, in either engine, the
\* session it created has a terminal status (COMPLETED, FAILED or CANCELLED),
\* also when the branch could be neither created nor checked out
C37_StartWorkflowEndsTerminal ==
    (pc \in {"returned", "raised"} /\ loop.via_start) =>
        sessions[cur].status \in TerminalStatus

----------------------------------------------------------------------------
(* Properties of the two resolvers on the workflow templates *)

\* C38: for the role list of every workflow template, when topological_sort
\* returns an order, _compute_phases returns normally and its phases hold
\* exactly the roles of that order
C38_PhaseResolverAcceptsTemplates ==
    agents \in Range(AllWorkflowTemplates) =>
        \A s \in sortResult, r \in phaseResult :
            ~s.raised =>
                /\ ~r.raised
                /\ UNION Range(r.phases) = Range(s.order)

----------------------------------------------------------------------------
(* Properties of the events of an engine call *)

\* the agent_completed and agent_failed events for the role of the
\* agent_spawned event at position i that follow it
OutcomesOf(i) ==
    {j \in DOMAIN emitted :
        /\ j > i
        /\ emitted[j].agent = emitted[i].agent
        /\ emitted[j].event \in {"agent_completed", "agent_failed"}}

\* the names of the events emitted so far
EmittedNames == {emitted[i].event : i \in DOMAIN emitted}

\* C39: every agent_spawned event is followed by at most one agent_completed
\* or agent_failed event for its role, by exactly one once the call has
\* returned or raised, and a call never emits both workflow_completed and
\* workflow_failed
C39_SpawnedRoleEndsOnce ==
    /\ \A i \in DOMAIN emitted :
           emitted[i].event = "agent_spawned" =>
               /\ Cardinality(OutcomesOf(i)) <= 1
               /\ pc \in {"returned", "raised"} => Cardinality(OutcomesOf(i)) = 1
    /\ ~({"workflow_completed", "workflow_failed"} \subseteq EmittedNames)

----------------------------------------------------------------------------
(* Properties of the batched git manager *)

\* the changes held in current_phase
HeldChanges ==
    IF batched.current_phase = <<>> THEN {}
    ELSE Range(batched.current_phase[1].changes)

\* the changes of the phases committed successfully
CommittedChanges ==
    UNION {Range(batched.pending_phases[i].changes) :
               i \in DOMAIN batched.pending_phases}

\* C40: every change staged so far is still held in current_phase or belongs
\* to a phase that was committed successfully
C40_NoStagedChangeDiscarded ==
    \A change \in 1..batched.staged :
        change \in HeldChanges \cup CommittedChanges

====
